---- MODULE Spec2Model ----
(***************************************************************************)
(* Verification model of the multi-agent toolkit's coordination core.      *)
(*                                                                         *)
(* AgentCoordinator (src/agents/agent_coordinator.py): the agent registry, *)
(* the task table with its dependency graph, capability-based assignment   *)
(* and completion with unblocking of dependents.  A call that raises is a  *)
(* step too: it keeps what it changed before the exception.                *)
(*                                                                         *)
(* AutonomousLoop (src/tasks/autonomous_loop.py): run's for loop, one      *)
(* monitor-think-act-report cycle per iteration, the idle counter and the  *)
(* two exception handlers.  The collaborators (handler, think_fn, act_fn,  *)
(* on_cycle) are inputs of a cycle: what they return or that they raise.   *)
(* A message is kept by its thread and file name; CycleResult.timestamp is *)
(* not read by run and is left out.                                        *)
(*                                                                         *)
(* File names are sequences of characters, compared the way Python         *)
(* compares strings.                                                       *)
(*                                                                         *)
(* PeerReviewer.review (src/quality/peer_review.py): the aggregation of    *)
(* the criteria's verdicts; a criterion is an input, the verdict it gives. *)
(*                                                                         *)
(* ConversationHandler (src/agents/conversation_handler.py): the listing   *)
(* and reading of the message files of a thread; the repository's          *)
(* directory of a thread is the set of the file names in it, and a GitHub  *)
(* API call either gives the directory or fails.                           *)
(*                                                                         *)
(* TaskBoard (src/tasks/task_board.py): the task list with its counter,    *)
(* the status changes and the keepalive task; load and save, the           *)
(* dependencies and the texts of a task are left out.                      *)
(*                                                                         *)
(* Task ids are the integers k standing for the strings "Tk"; id 0 ("T0")  *)
(* is an id the counter never allocates.  Agent.role, Agent.last_active,   *)
(* Task.description, Task.created and Task.completed are never read by the *)
(* operations modelled here and are left out.                              *)
(***************************************************************************)
EXTENDS Integers, Sequences, FiniteSets, TLC

\* ---- bounds -------------------------------------------------------------
MaxTasks == 2        \* tasks one coordinator creates
MaxCompleted == 1    \* cap on Agent.tasks_completed
MaxCycles == 2       \* largest max_cycles passed to run
MaxIdle == 2         \* largest stop_when_idle passed to run
MaxCriteria == 4     \* criteria of one PeerReviewer
MaxLastN == 2        \* largest last_n passed to read_thread
MaxBoard == 3        \* tasks added to one TaskBoard
MaxGraph == 4        \* tasks of one dependency graph

\* ---- values -------------------------------------------------------------
NoAgent == "None"    \* Optional[str] None for agent names
NoTask == -1         \* Optional[str] None for task ids
NoResult == "None"   \* Task.result default
NoError == "None"    \* the call returned
TypeError == "TypeError"   \* the call raised TypeError
NoThread == "None"   \* Task.thread default

AgentNames == {"coda", "opus"}
Results == {"done"}

\* inputs of the dependency-graph specification: one agent, one capability
GraphAgentNames == {"coda"}
GraphCapSets == {{"coding"}}
GraphCapLists == {<<>>}

GraphThreads == {NoThread}

\* inputs of the thread-contention specification
ThreadLabels == {"x", "y"}
Threads == ThreadLabels \cup {NoThread}
ThreadCapSets == {{"coding"}}

\* inputs of the assignment-policy specification
CapSets == {{"coding"}, {"critique"}, {"coding", "critique"}}
CapLists == {<<>>, <<"critique">>, <<"coding", "critique">>}

\* the polling loop
NoDesc == "None"     \* Optional[str] None for task descriptions
NoUrl == "None"      \* act_fn returned None
RAISES == "<raises>" \* the collaborator raised an Exception
TaskDescs == {"a", "b"}              \* descriptions passed to add_task
ThinkReturns == {NoDesc, "reply"}    \* what think_fn returns
ActReturns == {NoUrl, "url"}         \* what act_fn returns

\* file names: strings as sequences of characters; Ord gives the code
\* point of every character that occurs in them
Ord ==
    "-" :> 45 @@ "." :> 46 @@ "0" :> 48 @@ "1" :> 49 @@ "2" :> 50 @@
    "6" :> 54 @@ "9" :> 57 @@ "_" :> 95 @@ "a" :> 97 @@ "d" :> 100 @@
    "e" :> 101 @@ "m" :> 109 @@ "n" :> 110 @@ "o" :> 111 @@ "s" :> 115 @@
    "t" :> 116
Digits == {"0", "1", "2", "6", "9"}
Empty == <<>>        \* the empty string
Msg0101 ==           \* "20260101-0900.md"
    <<"2", "0", "2", "6", "0", "1", "0", "1", "-", "0", "9", "0", "0",
      ".", "m", "d">>
Msg0102 ==           \* "20260102-0900.md"
    <<"2", "0", "2", "6", "0", "1", "0", "2", "-", "0", "9", "0", "0",
      ".", "m", "d">>

\* what the handler of a loop gives for one thread: a list of messages (by
\* file name), or an exception
Fetched(raised, messages) == [raised |-> raised, messages |-> messages]
LoopThreads == <<"general">>             \* threads of the loop
LoopReturns ==
    {Fetched(TRUE, <<>>), Fetched(FALSE, <<>>), Fetched(FALSE, <<Msg0101>>)}

\* a loop watching two threads, and a handler that gives two messages with
\* the newer one first
MonitorThreads == <<"general", "review">>
MonitorReturns ==
    {Fetched(TRUE, <<>>), Fetched(FALSE, <<>>),
     Fetched(FALSE, <<Msg0102, Msg0101>>)}

\* more file names of a thread directory
Notes ==             \* "notes.md"
    <<"n", "o", "t", "e", "s", ".", "m", "d">>
Metadata ==          \* "_metadata.md"
    <<"_", "m", "e", "t", "a", "d", "a", "t", "a", ".", "m", "d">>
FileNames == {Msg0101, Msg0102, Notes, Metadata}
Todo ==              \* "todo.md"
    <<"t", "o", "d", "o", ".", "m", "d">>
HandlerThreads == {"general", "review"}
RuntimeError == "RuntimeError"   \* the call raised RuntimeError

\* Verdict
ACCEPT == "accept"
REVISE == "revise"
REJECT == "reject"
ABSTAIN == "abstain"
Verdicts == {ACCEPT, REVISE, REJECT, ABSTAIN}

\* priorities and statuses of the tasks of a TaskBoard
NORMAL == "normal"
KEEPALIVE == "keepalive"

\* TaskStatus
PENDING == "pending"
ASSIGNED == "assigned"
IN_PROGRESS == "in_progress"   \* set by external callers only
COMPLETED == "completed"
BLOCKED == "blocked"

VARIABLES
    agents,        \* AgentCoordinator.agents: name -> Agent (values)
    agentOrder,    \* insertion order of the keys of AgentCoordinator.agents
    tasks,         \* AgentCoordinator.tasks: id -> Task, ids 1.._task_counter
    task_counter,  \* AgentCoordinator._task_counter
    last,          \* the call just made: operation, arguments, return value
                   \* or exception raised
    cycle_count,   \* LoopState.cycle_count
    history,       \* LoopState.history
    pending_tasks, \* LoopState.pending_tasks
    threads,       \* AutonomousLoop.threads
    last_seen,     \* LoopState.last_seen: thread -> file name, "" for a
                   \* thread without a key
    max_cycles,    \* run's argument
    stop_when_idle,  \* run's argument
    idle_count,    \* run's local idle_count
    iterations,    \* iterations of run's for loop started so far
    criteria,      \* PeerReviewer.criteria, by their number
    inbox,         \* the repository: thread -> file names in its directory
    board,         \* TaskBoard.tasks
    _counter,      \* TaskBoard._counter
    pc             \* where run is: "new" (not called), "for" (at the loop
                   \* head), "cycle" (in the try body), "sleep" (in the
                   \* try body's time.sleep), "except" (in the handler's
                   \* time.sleep), "done" (left the loop)

coordVars == <<agents, agentOrder, tasks, task_counter>>
loopVars == <<cycle_count, history, pending_tasks, threads, last_seen,
              max_cycles, stop_when_idle, idle_count, iterations, pc>>
reviewVars == <<criteria>>
handlerVars == <<inbox>>
boardVars == <<board, _counter>>
vars == <<agents, agentOrder, tasks, task_counter, last, cycle_count, history,
          pending_tasks, threads, last_seen, max_cycles, stop_when_idle,
          idle_count, iterations, criteria, inbox, board, _counter, pc>>

\* what the calls of one component leave alone
outsideCoordinator == <<loopVars, reviewVars, handlerVars, boardVars>>
outsideLoop == <<coordVars, reviewVars, handlerVars, boardVars>>
outsideReview == <<coordVars, loopVars, handlerVars, boardVars>>
outsideHandler == <<coordVars, loopVars, reviewVars, boardVars>>
outsideBoard == <<coordVars, loopVars, reviewVars, handlerVars>>

\* ---- data ---------------------------------------------------------------
Agent(caps) ==
    [capabilities |-> caps, current_task |-> NoTask, tasks_completed |-> 0]

Task(req, deps, thread) ==
    [required_capabilities |-> req, assigned_to |-> NoAgent,
     status |-> PENDING, depends_on |-> deps, blocks |-> <<>>,
     thread |-> thread, result |-> NoResult]

is_available(a) == a.current_task = NoTask

Registered == DOMAIN agents
TaskIds == DOMAIN tasks

Range(s) == {s[i] : i \in 1..Len(s)}

\* depends_on lists offered to create_task: no dependency, or one id among
\* T0 (never allocated) and T1..T<MaxTasks> (created already, itself, or later)
DepLists == {<<>>} \cup {<<d>> : d \in 0..MaxTasks}

\* ---- _is_blocked --------------------------------------------------------
\* any(self.tasks.get(dep_id, Task(id="")).status != COMPLETED for dep_id in
\* task.depends_on): the default Task(id="") is built for every dependency
\* looked at, whether the id is in the table or not, and Task.description is
\* a required field, so the first dependency raises TypeError.  Only a task
\* without dependencies gets an answer: any() of nothing, False.
_is_blocked(ts, id) ==
    IF id \notin DOMAIN ts THEN "False"
    ELSE IF ts[id].depends_on # <<>> THEN TypeError
    ELSE "False"

\* ---- _find_best_agent ---------------------------------------------------
match_count(req, caps) == Cardinality({i \in 1..Len(req) : req[i] \in caps})

IsFree(n) == is_available(agents[n])
IsCandidate(req, n) ==
    /\ is_available(agents[n])
    /\ (req = <<>> \/ match_count(req, agents[n].capabilities) > 0)

\* the sort ignores the match count: least completed tasks first
KeyLess_loadonly(req, m, n) ==
    agents[m].tasks_completed < agents[n].tasks_completed

\* sort key (-match_count, tasks_completed), compared lexicographically
KeyLess(req, m, n) ==
    LET cm == match_count(req, agents[m].capabilities)
        cn == match_count(req, agents[n].capabilities)
    IN  \/ cm > cn
        \/ cm = cn /\ agents[m].tasks_completed < agents[n].tasks_completed

\* candidates[0] after the stable sort: the earliest candidate no other
\* candidate sorts strictly before
SortedFirst(req, cands) ==
    LET best == {i \in 1..Len(cands) :
                    \A j \in 1..Len(cands) : ~KeyLess(req, cands[j], cands[i])}
        first == CHOOSE i \in best : \A j \in best : i <= j
    IN  cands[first]

\* the fallback balances load: the available agent with the fewest completed
\* tasks, the earliest registered on ties
Fallback_leastloaded ==
    LET available == SelectSeq(agentOrder, IsFree)
        least == {i \in 1..Len(available) : \A j \in 1..Len(available) :
                     agents[available[i]].tasks_completed
                         <= agents[available[j]].tasks_completed}
    IN  IF available # <<>>
        THEN available[CHOOSE i \in least : \A j \in least : i <= j]
        ELSE NoAgent

Fallback ==
    LET available == SelectSeq(agentOrder, IsFree)
    IN  IF available # <<>> THEN available[1] ELSE NoAgent

\* the preferred agent is taken without looking at its availability
_find_best_agent_prefer_busy(req, prefer) ==
    IF prefer # NoAgent /\ prefer \in Registered
    THEN prefer
    ELSE LET IsCand(n) == IsCandidate(req, n)
             candidates == SelectSeq(agentOrder, IsCand)
         IN  IF candidates = <<>> THEN Fallback
             ELSE SortedFirst(req, candidates)

\* no capability scoring: the first available agent in registration order
_find_best_agent_first(req, prefer) ==
    IF prefer # NoAgent /\ prefer \in Registered /\ is_available(agents[prefer])
    THEN prefer
    ELSE Fallback

_find_best_agent(req, prefer) ==
    IF prefer # NoAgent /\ prefer \in Registered /\ is_available(agents[prefer])
    THEN prefer
    ELSE LET IsCand(n) == IsCandidate(req, n)
             candidates == SelectSeq(agentOrder, IsCand)
         IN  IF candidates = <<>> THEN Fallback
             ELSE SortedFirst(req, candidates)

\* ---- state after construction ------------------------------------------
Call(op, id, prefer, agent, tid) ==
    [op |-> op, task_id |-> id, prefer |-> prefer,
     ret_agent |-> agent, ret_task |-> tid, raised |-> NoError,
     description |-> FALSE, ret_list |-> <<>>]

Raise(op, id, prefer) ==
    [op |-> op, task_id |-> id, prefer |-> prefer,
     ret_agent |-> NoAgent, ret_task |-> NoTask, raised |-> TypeError,
     description |-> FALSE, ret_list |-> <<>>]

\* assign_task called with a description and no task_id
Described(call) == [call EXCEPT !.description = TRUE]

\* AgentCoordinator()
InitCoordinator ==
    /\ agents = <<>>
    /\ agentOrder = <<>>
    /\ tasks = <<>>
    /\ task_counter = 0

\* AutonomousLoop(handler, think_fn, act_fn, threads=ths, on_cycle=...)
InitLoop(ths) ==
    /\ cycle_count = 0
    /\ history = <<>>
    /\ pending_tasks = <<>>
    /\ threads = ths
    /\ last_seen = [t \in Range(ths) |-> Empty]
    /\ max_cycles = 0
    /\ stop_when_idle = 0
    /\ idle_count = 0
    /\ iterations = 0
    /\ pc = "new"

\* PeerReviewer(criteria)
InitReview(n) == criteria = n

\* the conversations directory with its thread directories
InitHandler == inbox = [t \in HandlerThreads |-> {}]

\* TaskBoard(repo_path), nothing loaded
InitBoard ==
    /\ board = <<>>
    /\ _counter = 0

Init ==
    /\ InitCoordinator
    /\ InitLoop(LoopThreads)
    /\ InitReview(0)
    /\ InitHandler
    /\ InitBoard
    /\ last = Call("init", NoTask, NoAgent, NoAgent, NoTask)

\* ---- register_agent -----------------------------------------------------
\* self.agents[name] = agent: a new key goes to the end of the dict, an
\* existing key keeps its position and gets a fresh Agent value
register_agent(name, caps) ==
    /\ agents' = IF name \in Registered
                 THEN [agents EXCEPT ![name] = Agent(caps)]
                 ELSE [n \in Registered \cup {name} |->
                          IF n = name THEN Agent(caps) ELSE agents[n]]
    /\ agentOrder' = IF name \in Registered THEN agentOrder
                     ELSE Append(agentOrder, name)
    /\ last' = Call("register_agent", NoTask, NoAgent, name, NoTask)
    /\ UNCHANGED <<tasks, task_counter>>
    /\ UNCHANGED outsideCoordinator

\* ---- create_task --------------------------------------------------------
\* the task table after create_task(required_capabilities, depends_on):
\* the new task is stored first, then every dependency id that exists
\* (the new id included) gets the new id appended to its blocks
AppendBlocks(ts, deps, id) ==
    LET F[i \in 0..Len(deps)] ==
            IF i = 0 THEN ts
            ELSE IF deps[i] \in DOMAIN F[i-1]
                 THEN [F[i-1] EXCEPT ![deps[i]].blocks = Append(@, id)]
                 ELSE F[i-1]
    IN  F[Len(deps)]

Created(ts, id, req, deps, thread) ==
    AppendBlocks([k \in DOMAIN ts \cup {id} |->
                     IF k = id THEN Task(req, deps, thread) ELSE ts[k]],
                 deps, id)

\* the counter is read but never advanced
create_task_samecounter(req, deps, thread) ==
    /\ task_counter < MaxTasks
    /\ task_counter' = task_counter
    /\ tasks' = Created(tasks, task_counter + 1, req, deps, thread)
    /\ last' = Call("create_task", NoTask, NoAgent, NoAgent, task_counter + 1)
    /\ UNCHANGED <<agents, agentOrder>>
    /\ UNCHANGED outsideCoordinator

\* create_task while fewer than limit tasks exist
create_task_within(limit, req, deps, thread) ==
    /\ task_counter < limit
    /\ task_counter' = task_counter + 1
    /\ tasks' = Created(tasks, task_counter + 1, req, deps, thread)
    /\ last' = Call("create_task", NoTask, NoAgent, NoAgent, task_counter + 1)
    /\ UNCHANGED <<agents, agentOrder>>
    /\ UNCHANGED outsideCoordinator

create_task(req, deps, thread) == create_task_within(MaxTasks, req, deps, thread)

\* ---- assign_task --------------------------------------------------------
\* task_id = NoTask with hasDescription: a task is created first
\* (required_capabilities req, no dependencies, no thread); task_id of an existing
\* task: that task; anything else returns None at once
assign_task(task_id, hasDescription, req, prefer) ==
    IF task_id = NoTask /\ hasDescription
    THEN /\ task_counter < MaxTasks
         /\ LET id == task_counter + 1
                ts == Created(tasks, id, req, <<>>, NoThread)
                agent == _find_best_agent(req, prefer)
            IN  /\ task_counter' = id
                /\ IF agent = NoAgent
                   THEN /\ tasks' = ts
                        /\ agents' = agents
                        /\ last' = Described(Call("assign_task", NoTask, prefer,
                                                  NoAgent, NoTask))
                   ELSE /\ tasks' = [ts EXCEPT ![id].assigned_to = agent,
                                               ![id].status = ASSIGNED]
                        /\ agents' = [agents EXCEPT ![agent].current_task = id]
                        /\ last' = Described(Call("assign_task", NoTask, prefer,
                                                  agent, id))
         /\ UNCHANGED agentOrder
         /\ UNCHANGED outsideCoordinator
    ELSE IF task_id # NoTask /\ task_id \in TaskIds
    THEN /\ req = <<>> /\ ~hasDescription
         /\ IF _is_blocked(tasks, task_id) = TypeError
            THEN /\ tasks' = tasks
                 /\ agents' = agents
                 /\ last' = Raise("assign_task", task_id, prefer)
            ELSE IF _is_blocked(tasks, task_id) = "True"
            THEN /\ tasks' = [tasks EXCEPT ![task_id].status = BLOCKED]
                 /\ agents' = agents
                 /\ last' = Call("assign_task", task_id, prefer, NoAgent, NoTask)
            ELSE LET agent == _find_best_agent(tasks[task_id].required_capabilities,
                                               prefer)
                 IN  IF agent = NoAgent
                     THEN /\ tasks' = tasks
                          /\ agents' = agents
                          /\ last' = Call("assign_task", task_id, prefer, NoAgent, NoTask)
                     ELSE /\ tasks' = [tasks EXCEPT ![task_id].assigned_to = agent,
                                                    ![task_id].status = ASSIGNED]
                          /\ agents' = [agents EXCEPT ![agent].current_task = task_id]
                          /\ last' = Call("assign_task", task_id, prefer, agent, task_id)
         /\ UNCHANGED <<agentOrder, task_counter>>
         /\ UNCHANGED outsideCoordinator
    ELSE /\ req = <<>> /\ ~hasDescription /\ prefer = NoAgent
         /\ last' = Call("assign_task", task_id, prefer, NoAgent, NoTask)
         /\ UNCHANGED <<agents, agentOrder, tasks, task_counter>>
         /\ UNCHANGED outsideCoordinator

\* ---- complete_task ------------------------------------------------------
\* the loop over task.blocks stops at the first listed task that exists and
\* whose _is_blocked call raises: its position, 0 if the loop runs through
FirstRaise(ts, blocks) ==
    LET bad == {i \in 1..Len(blocks) :
                   blocks[i] \in DOMAIN ts /\ _is_blocked(ts, blocks[i]) = TypeError}
    IN  IF bad = {} THEN 0 ELSE CHOOSE i \in bad : \A j \in bad : i <= j

\* the table after the loop: every listed task before that position that
\* exists and is not blocked got status PENDING
Unblock(ts, blocks) ==
    LET stop == FirstRaise(ts, blocks)
        n == IF stop = 0 THEN Len(blocks) ELSE stop - 1
        F[i \in 0..n] ==
            IF i = 0 THEN ts
            ELSE IF blocks[i] \in DOMAIN F[i-1]
                    /\ _is_blocked(F[i-1], blocks[i]) = "False"
                 THEN [F[i-1] EXCEPT ![blocks[i]].status = PENDING]
                 ELSE F[i-1]
    IN  F[n]

\* the agent is released but its counter is not incremented
FreeAgent_nocount(ags, name) ==
    IF name # NoAgent /\ name \in DOMAIN ags
    THEN [ags EXCEPT ![name].current_task = NoTask]
    ELSE ags

FreeAgent(ags, name) ==
    IF name # NoAgent /\ name \in DOMAIN ags
    THEN [ags EXCEPT ![name].current_task = NoTask,
                     ![name].tasks_completed = @ + 1]
    ELSE ags

\* no membership test: an unknown id raises KeyError at self.tasks[task_id]
complete_task_keyerror(task_id, result) ==
    IF task_id \notin TaskIds
    THEN /\ last' = [Raise("complete_task", task_id, NoAgent)
                        EXCEPT !.raised = "KeyError"]
         /\ UNCHANGED <<agents, agentOrder, tasks, task_counter>>
         /\ UNCHANGED outsideCoordinator
    ELSE LET who == tasks[task_id].assigned_to
             done == [tasks EXCEPT ![task_id].status = COMPLETED,
                                   ![task_id].result = result]
         IN  /\ (who \in Registered => agents[who].tasks_completed < MaxCompleted)
             /\ tasks' = Unblock(done, tasks[task_id].blocks)
             /\ agents' = FreeAgent(agents, who)
             /\ last' = IF FirstRaise(done, tasks[task_id].blocks) = 0
                        THEN Call("complete_task", task_id, NoAgent, NoAgent, NoTask)
                        ELSE Raise("complete_task", task_id, NoAgent)
             /\ UNCHANGED <<agentOrder, task_counter>>
             /\ UNCHANGED outsideCoordinator

complete_task(task_id, result) ==
    IF task_id \notin TaskIds
    THEN /\ last' = Call("complete_task", task_id, NoAgent, NoAgent, NoTask)
         /\ UNCHANGED <<agents, agentOrder, tasks, task_counter>>
         /\ UNCHANGED outsideCoordinator
    ELSE LET who == tasks[task_id].assigned_to
             done == [tasks EXCEPT ![task_id].status = COMPLETED,
                                   ![task_id].result = result]
         IN  /\ (who \in Registered => agents[who].tasks_completed < MaxCompleted)
             /\ tasks' = Unblock(done, tasks[task_id].blocks)
             /\ agents' = FreeAgent(agents, who)
             /\ last' = IF FirstRaise(done, tasks[task_id].blocks) = 0
                        THEN Call("complete_task", task_id, NoAgent, NoAgent, NoTask)
                        ELSE Raise("complete_task", task_id, NoAgent)
             /\ UNCHANGED <<agentOrder, task_counter>>
             /\ UNCHANGED outsideCoordinator

\* ---- check_conflicts ----------------------------------------------------
\* the entries of the returned list: "Thread conflict on '<thread>': <id>
\* (<assigned_to>), ..." and "Circular dependency involving <id>"
ThreadConflict(thread, involved) ==
    [kind |-> "thread", thread |-> thread, involved |-> involved,
     task_id |-> NoTask]
Circular(id) ==
    [kind |-> "circular", thread |-> NoThread, involved |-> <<>>,
     task_id |-> id]

\* tasks being worked on are not counted
OnThread_assignedonly(ts, id) ==
    /\ ts[id].thread \notin {NoThread, ""}
    /\ ts[id].status = ASSIGNED

\* task.thread and task.status in (ASSIGNED, IN_PROGRESS); None and the
\* empty string are falsy
OnThread(ts, id) ==
    /\ ts[id].thread \notin {NoThread, ""}
    /\ ts[id].status \in {ASSIGNED, IN_PROGRESS}

\* thread_tasks: its keys in insertion order, and the list under a key
thread_keys(ts) ==
    LET n == Cardinality(DOMAIN ts)
        F[i \in 0..n] ==
            IF i = 0 THEN <<>>
            ELSE IF OnThread(ts, i) /\ ts[i].thread \notin Range(F[i-1])
                 THEN Append(F[i-1], ts[i].thread)
                 ELSE F[i-1]
    IN  F[n]

thread_tasks(ts, thread) ==
    LET n == Cardinality(DOMAIN ts)
        F[i \in 0..n] ==
            IF i = 0 THEN <<>>
            ELSE IF OnThread(ts, i) /\ ts[i].thread = thread
                 THEN Append(F[i-1], <<i, ts[i].assigned_to>>)
                 ELSE F[i-1]
    IN  F[n]

\* only a task that lists itself is found
_has_circular_dep_selfonly(ts, task_id, visited) ==
    \/ task_id \in visited
    \/ task_id \in DOMAIN ts /\ task_id \in Range(ts[task_id].depends_on)

\* only a walk that comes back to the task it started from is a cycle
_has_circular_dep_tostart(ts, task_id, visited) ==
    \/ task_id \in visited
    \/ /\ task_id \in DOMAIN ts
       /\ LET n == Cardinality(DOMAIN ts)
              deps(x) == Range(ts[x].depends_on) \cap DOMAIN ts
              R[i \in 0..n] ==
                  IF i = 0 THEN deps(task_id)
                  ELSE R[i-1] \cup UNION {deps(x) : x \in R[i-1]}
          IN  task_id \in R[n]

\* the branches of the walk share one visited set: an id met a second time
\* is reported, whether or not it is on the path walked so far
_has_circular_dep_shared(ts, task_id, visited) ==
    \/ task_id \in visited
    \/ /\ task_id \in DOMAIN ts
       /\ LET n == Cardinality(DOMAIN ts)
              deps(x) == Range(ts[x].depends_on) \cap DOMAIN ts
              R[i \in 0..n] ==
                  IF i = 0 THEN {task_id}
                  ELSE R[i-1] \cup UNION {deps(x) : x \in R[i-1]}
              edges == {e \in R[n] \X (1..2) : e[2] <= Len(ts[e[1]].depends_on)}
              target(e) == ts[e[1]].depends_on[e[2]]
          IN  \E e \in edges :
                 \/ target(e) = task_id
                 \/ \E f \in edges : f # e /\ target(f) = target(e)

\* depth-first walk along depends_on; every branch gets its own copy of
\* the visited set, so visited is the set of ids on the path walked so far
RECURSIVE _has_circular_dep(_, _, _)
_has_circular_dep(ts, task_id, visited) ==
    IF task_id \in visited THEN TRUE
    ELSE IF task_id \notin DOMAIN ts THEN FALSE
    ELSE \E i \in 1..Len(ts[task_id].depends_on) :
            _has_circular_dep(ts, ts[task_id].depends_on[i],
                              visited \cup {task_id})

\* the deepest nesting of _has_circular_dep calls the walk from task_id can
\* reach (1 for the outermost call)
RECURSIVE WalkDepth(_, _, _)
WalkDepth(ts, task_id, visited) ==
    IF task_id \in visited \/ task_id \notin DOMAIN ts THEN 1
    ELSE LET below == {WalkDepth(ts, ts[task_id].depends_on[i],
                                 visited \cup {task_id}) :
                           i \in 1..Len(ts[task_id].depends_on)}
         IN  IF below = {} THEN 1
             ELSE 1 + CHOOSE d \in below : \A e \in below : e <= d

conflicts(ts) ==
    LET keys == thread_keys(ts)
        n == Cardinality(DOMAIN ts)
        T[i \in 0..Len(keys)] ==
            IF i = 0 THEN <<>>
            ELSE IF Len(thread_tasks(ts, keys[i])) > 1
                 THEN Append(T[i-1],
                             ThreadConflict(keys[i], thread_tasks(ts, keys[i])))
                 ELSE T[i-1]
        C[i \in 0..n] ==
            IF i = 0 THEN T[Len(keys)]
            ELSE IF _has_circular_dep(ts, i, {})
                 THEN Append(C[i-1], Circular(i))
                 ELSE C[i-1]
    IN  C[n]

check_conflicts ==
    /\ last' = [Call("check_conflicts", NoTask, NoAgent, NoAgent, NoTask)
                   EXCEPT !.ret_list = conflicts(tasks)]
    /\ UNCHANGED <<agents, agentOrder, tasks, task_counter>>
    /\ UNCHANGED outsideCoordinator

\* ---- get_available_tasks -----------------------------------------------
\* [task for task in tasks.values() if status == PENDING and not
\* _is_blocked(id)]: _is_blocked is called for the PENDING tasks only, and
\* the comprehension is abandoned at the first call that raises
available_raises(ts) ==
    \E id \in DOMAIN ts :
        ts[id].status = PENDING /\ _is_blocked(ts, id) = TypeError

available(ts) ==
    LET n == Cardinality(DOMAIN ts)
        F[i \in 0..n] ==
            IF i = 0 THEN <<>>
            ELSE IF ts[i].status = PENDING /\ _is_blocked(ts, i) = "False"
                 THEN Append(F[i-1], i)
                 ELSE F[i-1]
    IN  F[n]

get_available_tasks ==
    /\ last' = IF available_raises(tasks)
               THEN Raise("get_available_tasks", NoTask, NoAgent)
               ELSE [Call("get_available_tasks", NoTask, NoAgent, NoAgent, NoTask)
                        EXCEPT !.ret_list = available(tasks)]
    /\ UNCHANGED <<agents, agentOrder, tasks, task_counter>>
    /\ UNCHANGED outsideCoordinator

\* an external caller marks an assigned task as being worked on
set_in_progress(task_id) ==
    /\ task_id \in TaskIds
    /\ tasks[task_id].status = ASSIGNED
    /\ tasks' = [tasks EXCEPT ![task_id].status = IN_PROGRESS]
    /\ last' = Call("set_in_progress", task_id, NoAgent, NoAgent, NoTask)
    /\ UNCHANGED <<agents, agentOrder, task_counter>>
    /\ UNCHANGED outsideCoordinator

\* ---- the coordinator as a state machine --------------------------------
ArgIds == (0..MaxTasks) \cup {NoTask}
Prefers == AgentNames \cup {NoAgent}
GraphPrefers == GraphAgentNames \cup {NoAgent}

\* the dependency graph: any call in any order, known and unknown ids, one
\* agent name
Next ==
    \/ \E name \in GraphAgentNames, caps \in GraphCapSets :
          register_agent(name, caps)
    \/ \E req \in GraphCapLists, deps \in DepLists, thread \in GraphThreads :
          create_task(req, deps, thread)
    \/ \E id \in ArgIds, d \in BOOLEAN, req \in GraphCapLists,
          prefer \in GraphPrefers : assign_task(id, d, req, prefer)
    \/ \E id \in 0..MaxTasks, result \in Results : complete_task(id, result)
    \/ check_conflicts
    \/ get_available_tasks

Spec == Init /\ [][Next]_vars

\* the assignment policy: two agents of varied capabilities, tasks without
\* dependencies, and callers that assign a task once and then complete it
NextAssign ==
    \/ \E name \in AgentNames, caps \in CapSets : register_agent(name, caps)
    \/ \E req \in CapLists : create_task(req, <<>>, NoThread)
    \/ \E req \in CapLists, prefer \in Prefers :
          assign_task(NoTask, TRUE, req, prefer)
    \/ \E id \in TaskIds, prefer \in Prefers :
          tasks[id].status = PENDING /\ assign_task(id, FALSE, <<>>, prefer)
    \/ \E id \in TaskIds, result \in Results :
          tasks[id].status = ASSIGNED /\ complete_task(id, result)

SpecAssign == Init /\ [][NextAssign]_vars

\* thread contention: two agents, tasks with and without thread labels and
\* without dependencies, assigned once, possibly marked in progress, then
\* completed
NextThreads ==
    \/ \E name \in AgentNames, caps \in ThreadCapSets : register_agent(name, caps)
    \/ \E thread \in Threads : create_task(<<>>, <<>>, thread)
    \/ \E id \in TaskIds :
          tasks[id].status = PENDING /\ assign_task(id, FALSE, <<>>, NoAgent)
    \/ \E id \in TaskIds : set_in_progress(id)
    \/ \E id \in TaskIds, result \in Results :
          tasks[id].status \in {ASSIGNED, IN_PROGRESS} /\ complete_task(id, result)
    \/ check_conflicts

SpecThreads == Init /\ [][NextThreads]_vars

\* dependency graphs of up to MaxGraph tasks: depends_on lists with one id
\* among the id that no task has (0), the ids of the tasks created so far and
\* the id of the task being created, or with two ids in ascending order,
\* possibly the same id twice, among 0 and the ids of the tasks created so far
GraphDeps(id) ==
    {<<>>} \cup {<<a>> : a \in 0..id}
           \cup {<<a, b>> : a \in 0..(id - 1), b \in 0..(id - 1)}

NextGraph ==
    \/ \E deps \in GraphDeps(task_counter + 1) :
          /\ Len(deps) = 2 => deps[1] <= deps[2]
          /\ create_task_within(MaxGraph, <<>>, deps, NoThread)
    \/ check_conflicts

SpecGraph == Init /\ [][NextGraph]_vars

\* callers without discipline: two agents, tasks without dependencies, and
\* assign_task and complete_task on any existing task in any status
NextAnyOrder ==
    \/ \E name \in AgentNames, caps \in ThreadCapSets : register_agent(name, caps)
    \/ create_task(<<>>, <<>>, NoThread)
    \/ \E id \in TaskIds, prefer \in Prefers :
          assign_task(id, FALSE, <<>>, prefer)
    \/ \E id \in TaskIds, result \in Results : complete_task(id, result)

SpecAnyOrder == Init /\ [][NextAnyOrder]_vars

\* ---- AutonomousLoop ----------------------------------------------------
\* the record of a loop step: what the collaborators did in it
LoopCall(op) ==
    [op |-> op, polled |-> <<>>, fetched |-> <<>>, fetch_failed |-> FALSE,
     new_messages |-> 0,
     think_called |-> FALSE, think |-> NoDesc, acted |-> NoDesc,
     act |-> NoUrl, observer |-> NoDesc, interrupted |-> FALSE]

\* Python truth of an Optional[str]
Truthy(x) == x \notin {NoDesc, ""}

\* CycleResult.action_taken: None, the task, or "FAILED: <task> (<error>)"
NoAction == [failed |-> FALSE, task |-> NoDesc]
\* a failed action is recorded like a successful one
Action_nofail(task, act) == [failed |-> FALSE, task |-> task]

Action(task, act) == [failed |-> act = RAISES, task |-> task]

\* think_fn is called in every cycle
think_invoked_always(n, queue) == TRUE

\* if new_messages or self.state.pending_tasks
think_invoked(n, queue) == n > 0 \/ queue # <<>>

\* the newest deferred task is taken
pop_newest(queue) ==
    [task |-> queue[Len(queue)], queue |-> SubSeq(queue, 1, Len(queue) - 1)]

\* the oldest deferred task is read but stays on the queue
pop_keep(queue) == [task |-> Head(queue), queue |-> queue]

\* self.state.pending_tasks.pop(0)
pop_oldest(queue) == [task |-> Head(queue), queue |-> Tail(queue)]

CycleResult(number, new_messages, action, url, queue) ==
    [cycle_number |-> number, new_messages |-> new_messages,
     action_taken |-> action,
     pr_url |-> url,
     next_task |-> IF queue # <<>> THEN Head(queue) ELSE NoDesc]

\* tasks are queued before run is called, each description once
add_task(task) ==
    /\ pc = "new"
    /\ task \notin Range(pending_tasks)
    /\ pending_tasks' = Append(pending_tasks, task)
    /\ last' = [LoopCall("add_task") EXCEPT !.acted = task]
    /\ UNCHANGED <<cycle_count, history, threads, last_seen, max_cycles,
                   stop_when_idle, idle_count, iterations, pc>>
    /\ UNCHANGED outsideLoop

\* run(max_cycles, poll_interval, stop_when_idle) up to the for statement;
\* poll_interval is a non-negative number of seconds, which time.sleep
\* accepts
run(M, N) ==
    /\ pc = "new"
    /\ max_cycles' = M
    /\ stop_when_idle' = N
    /\ idle_count' = 0
    /\ iterations' = 0
    /\ pc' = "for"
    /\ last' = LoopCall("run")
    /\ UNCHANGED <<cycle_count, history, pending_tasks, threads, last_seen>>
    /\ UNCHANGED outsideLoop

\* range(max_cycles) has a next value
in_range_inclusive(i, M) == i <= M

in_range(i, M) == i < M

\* for _ in range(max_cycles): the next iteration, or the end of the loop
for_next ==
    /\ pc = "for"
    /\ IF in_range(iterations, max_cycles)
       THEN iterations' = iterations + 1 /\ pc' = "cycle"
       ELSE iterations' = iterations /\ pc' = "done"
    /\ last' = LoopCall("for")
    /\ UNCHANGED <<cycle_count, history, pending_tasks, threads, last_seen,
                   max_cycles, stop_when_idle, idle_count>>
    /\ UNCHANGED outsideLoop

\* if result.action_taken: idle_count = 0 else: idle_count += 1
next_idle(idle, action) == IF Truthy(action.task) THEN 0 ELSE idle + 1

\* if stop_when_idle and idle_count >= stop_when_idle: break
idle_stop(N, idle) == N # 0 /\ idle >= N

\* an exception that leaves _run_cycle ends run
handler_pc_abort == "done"

\* except Exception: log, then time.sleep(poll_interval)
handler_pc == "except"

\* Python's order of strings: by the code points of the first characters
\* that differ, a proper prefix first
StrLess(a, b) ==
    \E k \in 1..Len(b) :
        /\ k <= Len(a) + 1
        /\ k = Len(a) + 1 \/ Ord[a[k]] < Ord[b[k]]
        /\ SubSeq(a, 1, k - 1) = SubSeq(b, 1, k - 1)

\* a message object: the thread whose handler call returned it, and its
\* file name
Message(thread, filename) == [thread |-> thread, filename |-> filename]

\* the watermark is set to whatever was seen last
record_seen_overwrite(seen, thread, filename) ==
    [seen EXCEPT ![thread] = filename]

\* current = last_seen.get(thread, ""); if filename > current: set
record_seen(seen, thread, filename) ==
    IF StrLess(seen[thread], filename)
    THEN [seen EXCEPT ![thread] = filename]
    ELSE seen

\* for msg in new: self.state.record_seen(thread, msg.filename)
record_all(seen, thread, filenames) ==
    LET F[i \in 0..Len(filenames)] ==
            IF i = 0 THEN seen
            ELSE record_seen(F[i-1], thread, filenames[i])
    IN  F[Len(filenames)]

\* the handler method called for a thread: get_new_messages(thread, last)
\* with a watermark, read_thread(thread, last_n=3) without one
polled_with(seen, thread) ==
    IF seen[thread] # Empty THEN "get_new_messages" ELSE "read_thread"

\* the first thread whose handler call raises ends the monitor step
_check_new_messages_abort(ths, seen, fetched) ==
    LET F[i \in 0..Len(ths)] ==
            IF i = 0 THEN [all_new |-> <<>>, last_seen |-> seen, polled |-> <<>>,
                           stopped |-> FALSE]
            ELSE IF F[i-1].stopped THEN F[i-1]
            ELSE IF fetched[i].raised
                 THEN [F[i-1] EXCEPT !.stopped = TRUE,
                          !.polled = Append(@, polled_with(F[i-1].last_seen, ths[i]))]
            ELSE [all_new |-> F[i-1].all_new \o
                        [k \in 1..Len(fetched[i].messages) |->
                            Message(ths[i], fetched[i].messages[k])],
                  last_seen |-> record_all(F[i-1].last_seen, ths[i],
                                           fetched[i].messages),
                  polled |-> Append(F[i-1].polled,
                                    polled_with(F[i-1].last_seen, ths[i])),
                  stopped |-> FALSE]
    IN  [all_new |-> F[Len(ths)].all_new, last_seen |-> F[Len(ths)].last_seen,
         polled |-> F[Len(ths)].polled]

\* _check_new_messages: for every thread in order, the handler's messages
\* are recorded and collected; a handler call that raises is logged and the
\* thread is skipped.  fetched[i] is what the handler gives for threads[i]
_check_new_messages(ths, seen, fetched) ==
    LET F[i \in 0..Len(ths)] ==
            IF i = 0 THEN [all_new |-> <<>>, last_seen |-> seen, polled |-> <<>>]
            ELSE IF fetched[i].raised
                 THEN [F[i-1] EXCEPT
                          !.polled = Append(@, polled_with(F[i-1].last_seen, ths[i]))]
            ELSE [all_new |-> F[i-1].all_new \o
                        [k \in 1..Len(fetched[i].messages) |->
                            Message(ths[i], fetched[i].messages[k])],
                  last_seen |-> record_all(F[i-1].last_seen, ths[i],
                                           fetched[i].messages),
                  polled |-> Append(F[i-1].polled,
                                    polled_with(F[i-1].last_seen, ths[i]))]
    IN  F[Len(ths)]

\* the handler's results when it has nothing for any thread
Nothing(ths) == [i \in 1..Len(ths) |-> Fetched(FALSE, <<>>)]

\* the try body of one iteration up to time.sleep: _run_cycle, the idle
\* counter and the idle stop.  fetched: what the handler gives for each
\* thread in _check_new_messages; think: what think_fn returns, or RAISES;
\* act: what act_fn returns, or RAISES; observer: RAISES when on_cycle
\* raises; interrupted: KeyboardInterrupt arrives at the start of the
\* monitor step
cycle(fetched, think, act, observer, interrupted) ==
    LET monitor == _check_new_messages(threads, last_seen, fetched)
        new_messages == monitor.all_new
        n == Len(new_messages)
        think_called == think_invoked(n, pending_tasks)
        task0 == IF think_called THEN think ELSE NoDesc
        popped == ~Truthy(task0) /\ pending_tasks # <<>>
        task == IF popped THEN pop_oldest(pending_tasks).task ELSE task0
        queue == IF popped THEN pop_oldest(pending_tasks).queue
                 ELSE pending_tasks
        action == IF Truthy(task) THEN Action(task, act) ELSE NoAction
        url == IF Truthy(task) /\ act # RAISES THEN act ELSE NoUrl
        result == CycleResult(cycle_count + 1, new_messages, action, url, queue)
        idle == next_idle(idle_count, action)
        call == [LoopCall("cycle") EXCEPT
                    !.interrupted = interrupted,
                    !.fetched = fetched,
                    !.fetch_failed = \E i \in 1..Len(fetched) : fetched[i].raised]
        polled == [call EXCEPT !.polled = monitor.polled, !.new_messages = n]
    IN  /\ pc = "cycle"
        /\ cycle_count' = cycle_count + 1
        /\ UNCHANGED <<threads, max_cycles, stop_when_idle, iterations>>
        /\ UNCHANGED outsideLoop
        /\ IF interrupted
           THEN /\ think = NoDesc /\ act = NoUrl /\ observer = NoDesc
                /\ fetched = Nothing(threads)
                /\ pc' = "done"
                /\ last' = call
                /\ UNCHANGED <<history, pending_tasks, last_seen, idle_count>>
           ELSE IF think_called /\ think = RAISES
           THEN /\ act = NoUrl /\ observer = NoDesc
                /\ pc' = handler_pc
                /\ last_seen' = monitor.last_seen
                /\ last' = [polled EXCEPT !.think_called = TRUE,
                                          !.think = RAISES]
                /\ UNCHANGED <<history, pending_tasks, idle_count>>
           ELSE /\ think_called \/ think = NoDesc
                /\ Truthy(task) \/ act = NoUrl
                /\ pending_tasks' = queue
                /\ history' = Append(history, result)
                /\ last_seen' = monitor.last_seen
                /\ last' = [polled EXCEPT !.think_called = think_called,
                                          !.think = task0,
                                          !.acted = IF Truthy(task) THEN task
                                                    ELSE NoDesc,
                                          !.act = IF Truthy(task) THEN act
                                                  ELSE NoUrl,
                                          !.observer = observer]
                /\ IF observer = RAISES
                   THEN pc' = handler_pc /\ idle_count' = idle_count
                   ELSE /\ idle_count' = idle
                        /\ pc' = IF idle_stop(stop_when_idle, idle)
                                 THEN "done" ELSE "sleep"

\* time.sleep(poll_interval) at the end of the try body returns, or
\* KeyboardInterrupt arrives in it and the handler breaks
sleep(interrupted) ==
    /\ pc = "sleep"
    /\ pc' = IF interrupted THEN "done" ELSE "for"
    /\ last' = [LoopCall("sleep") EXCEPT !.interrupted = interrupted]
    /\ UNCHANGED <<cycle_count, history, pending_tasks, threads, last_seen,
                   max_cycles, stop_when_idle, idle_count, iterations>>
    /\ UNCHANGED outsideLoop

\* time.sleep(poll_interval) in the except Exception handler returns, or
\* KeyboardInterrupt arrives in it and leaves run
sleep_in_handler(interrupted) ==
    /\ pc = "except"
    /\ pc' = IF interrupted THEN "done" ELSE "for"
    /\ last' = [LoopCall("sleep_in_handler") EXCEPT !.interrupted = interrupted]
    /\ UNCHANGED <<cycle_count, history, pending_tasks, threads, last_seen,
                   max_cycles, stop_when_idle, idle_count, iterations>>
    /\ UNCHANGED outsideLoop

\* one loop, tasks queued before the one call of run
NextLoop ==
    \/ \E task \in TaskDescs : add_task(task)
    \/ \E M \in 0..MaxCycles, N \in 0..MaxIdle : run(M, N)
    \/ for_next
    \/ \E fetched \in [1..Len(threads) -> LoopReturns],
          think \in ThinkReturns \cup {RAISES},
          act \in ActReturns \cup {RAISES},
          observer \in {NoDesc, RAISES}, interrupted \in BOOLEAN :
          cycle(fetched, think, act, observer, interrupted)
    \/ \E interrupted \in BOOLEAN : sleep(interrupted)
    \/ \E interrupted \in BOOLEAN : sleep_in_handler(interrupted)

SpecLoop == Init /\ [][NextLoop]_vars

\* a loop over two threads with nothing queued, run without an idle stop
\* and with an observer that returns
InitMonitor ==
    /\ InitCoordinator
    /\ InitLoop(MonitorThreads)
    /\ InitReview(0)
    /\ InitHandler
    /\ InitBoard
    /\ last = Call("init", NoTask, NoAgent, NoAgent, NoTask)

NextMonitor ==
    \/ \E M \in 0..MaxCycles : run(M, 0)
    \/ for_next
    \/ \E fetched \in [1..Len(threads) -> MonitorReturns],
          think \in ThinkReturns \cup {RAISES}, act \in ActReturns,
          interrupted \in BOOLEAN :
          cycle(fetched, think, act, NoDesc, interrupted)
    \/ \E interrupted \in BOOLEAN : sleep(interrupted)
    \/ \E interrupted \in BOOLEAN : sleep_in_handler(interrupted)

SpecMonitor == InitMonitor /\ [][NextMonitor]_vars

\* ---- PeerReviewer -------------------------------------------------------
\* a call of review: the verdicts of the criteria in order, the overall
\* verdict and the positions of the results listed as issues
ReviewCall(results, verdict, issues) ==
    [op |-> "review", results |-> results, overall_verdict |-> verdict,
     issues |-> issues]

\* the verdict of the first criterion that did not accept
overall_first(results) ==
    LET bad == {i \in 1..Len(results) : results[i] \in {REJECT, REVISE}}
    IN  IF bad = {} THEN ACCEPT
        ELSE results[CHOOSE i \in bad : \A j \in bad : i <= j]

\* if any(verdict == REJECT): REJECT elif any(verdict == REVISE): REVISE
\* else: ACCEPT
overall(results) ==
    IF \E i \in 1..Len(results) : results[i] = REJECT THEN REJECT
    ELSE IF \E i \in 1..Len(results) : results[i] = REVISE THEN REVISE
    ELSE ACCEPT

\* the results with verdict REJECT or REVISE, by position
issues(results) == {i \in 1..Len(results) : results[i] \in {REJECT, REVISE}}

\* review(content, context): results[i] is what criteria[i].evaluate gives
review(results) ==
    /\ Len(results) = criteria
    /\ last' = ReviewCall(results, overall(results), issues(results))
    /\ UNCHANGED reviewVars
    /\ UNCHANGED outsideReview

\* reviewers with up to MaxCriteria criteria
InitReviewer ==
    /\ InitCoordinator
    /\ InitLoop(LoopThreads)
    /\ criteria \in 0..MaxCriteria
    /\ InitHandler
    /\ InitBoard
    /\ last = Call("init", NoTask, NoAgent, NoAgent, NoTask)

NextReview ==
    \E results \in [1..criteria -> Verdicts] : review(results)

SpecReview == InitReviewer /\ [][NextReview]_vars

\* ---- ConversationHandler ------------------------------------------------
\* a call of the handler: its arguments, the exception raised, and the
\* file names of what it returned
HandlerCall(op, thread, after, last_n) ==
    [op |-> op, thread |-> thread, after |-> after, last_n |-> last_n,
     raised |-> NoError, ret_names |-> <<>>]

\* re.match(r"(\d{8}-\d{4})", filename)
DateDigits == 8
TimeDigits == 4
PrefixLen == DateDigits + 1 + TimeDigits

match_prefix(filename) ==
    /\ Len(filename) >= PrefixLen
    /\ \A i \in 1..DateDigits : filename[i] \in Digits
    /\ filename[DateDigits + 1] = "-"
    /\ \A i \in (DateDigits + 2)..PrefixLen : filename[i] \in Digits

\* Message.sort_key; the fallback is "00000000-0000"
Sentinel ==
    [i \in 1..PrefixLen |-> IF i = DateDigits + 1 THEN "-" ELSE "0"]

sort_key(filename) ==
    IF match_prefix(filename) THEN SubSeq(filename, 1, PrefixLen)
    ELSE Sentinel

\* name.endswith(".md")
endswith_md(filename) ==
    /\ Len(filename) >= 3
    /\ SubSeq(filename, Len(filename) - 2, Len(filename)) = <<".", "m", "d">>

\* sorted(files): ascending in Python's order of strings
sorted(names) ==
    LET n == Cardinality(names)
        F[i \in 0..n] ==
            IF i = 0 THEN <<>>
            ELSE LET rest == names \ Range(F[i-1])
                 IN  Append(F[i-1],
                            CHOOSE f \in rest :
                                \A g \in rest : g = f \/ StrLess(f, g))
    IN  F[n]

\* list_messages on the directory listing the API gave
message_files(directory) ==
    sorted({f \in directory : endswith_md(f) /\ f # Metadata})

\* filenames[-last_n:] if last_n (None and 0 are falsy)
last_window(filenames, last_n) ==
    IF last_n # 0 /\ last_n < Len(filenames)
    THEN SubSeq(filenames, Len(filenames) - last_n + 1, Len(filenames))
    ELSE filenames

\* f >= after: the message of the watermark is returned again
newer_than_inclusive(filenames, after) ==
    IF ~match_prefix(after) THEN <<>>
    ELSE SelectSeq(filenames, LAMBDA f : ~StrLess(f, after))

\* [f for f in filenames if f > after], nothing when after has no prefix
newer_than(filenames, after) ==
    IF ~match_prefix(after) THEN <<>>
    ELSE SelectSeq(filenames, LAMBDA f : StrLess(after, f))

\* another agent's commit puts a file into a thread directory
push(thread, filename) ==
    /\ filename \notin inbox[thread]
    /\ inbox' = [inbox EXCEPT ![thread] = @ \cup {filename}]
    /\ last' = [HandlerCall("push", thread, filename, 0)
                   EXCEPT !.ret_names = <<filename>>]
    /\ UNCHANGED outsideHandler

\* list_messages(thread); api_ok: the GitHub API call succeeds
list_messages(thread, api_ok) ==
    /\ last' = IF api_ok
               THEN [HandlerCall("list_messages", thread, Empty, 0)
                        EXCEPT !.ret_names = message_files(inbox[thread])]
               ELSE [HandlerCall("list_messages", thread, Empty, 0)
                        EXCEPT !.raised = RuntimeError]
    /\ UNCHANGED handlerVars
    /\ UNCHANGED outsideHandler

\* read_thread(thread, last_n)
read_thread(thread, last_n, api_ok) ==
    /\ last' = IF api_ok
               THEN [HandlerCall("read_thread", thread, Empty, last_n)
                        EXCEPT !.ret_names =
                            last_window(message_files(inbox[thread]), last_n)]
               ELSE [HandlerCall("read_thread", thread, Empty, last_n)
                        EXCEPT !.raised = RuntimeError]
    /\ UNCHANGED handlerVars
    /\ UNCHANGED outsideHandler

\* get_new_messages(thread, after)
get_new_messages(thread, after, api_ok) ==
    /\ last' = IF api_ok
               THEN [HandlerCall("get_new_messages", thread, after, 0)
                        EXCEPT !.ret_names =
                            newer_than(message_files(inbox[thread]), after)]
               ELSE [HandlerCall("get_new_messages", thread, after, 0)
                        EXCEPT !.raised = RuntimeError]
    /\ UNCHANGED handlerVars
    /\ UNCHANGED outsideHandler

NextHandler ==
    \/ \E thread \in HandlerThreads, filename \in FileNames :
          push(thread, filename)
    \/ \E thread \in HandlerThreads, api_ok \in BOOLEAN :
          list_messages(thread, api_ok)
    \/ \E thread \in HandlerThreads, last_n \in 0..MaxLastN,
          api_ok \in BOOLEAN : read_thread(thread, last_n, api_ok)
    \/ \E thread \in HandlerThreads, after \in FileNames \cup {Empty},
          api_ok \in BOOLEAN : get_new_messages(thread, after, api_ok)

SpecHandler == Init /\ [][NextHandler]_vars

\* ---- AutonomousLoop over ConversationHandler ----------------------------
\* _check_new_messages: "First check: get last 3 messages as context"
FirstWindow == 3

\* what the handler gives _check_new_messages for each entry of ths, in
\* order, over the thread directories dirs: read_thread(thread, last_n=3)
\* without a watermark, get_new_messages(thread, last) with one; ok[i]: the
\* API calls for entry i succeed.  The watermarks move between the entries
handler_results(ths, seen, dirs, ok) ==
    LET F[i \in 0..Len(ths)] ==
            IF i = 0 THEN [seen |-> seen, fetched |-> <<>>]
            ELSE LET thread == ths[i]
                     files == message_files(dirs[thread])
                     new == IF polled_with(F[i-1].seen, thread) = "get_new_messages"
                            THEN newer_than(files, F[i-1].seen[thread])
                            ELSE last_window(files, FirstWindow)
                 IN  IF ok[i]
                     THEN [seen |-> record_all(F[i-1].seen, thread, new),
                           fetched |-> Append(F[i-1].fetched, Fetched(FALSE, new))]
                     ELSE [seen |-> F[i-1].seen,
                           fetched |-> Append(F[i-1].fetched, Fetched(TRUE, <<>>))]
    IN  F[Len(ths)].fetched

\* one thread, configured twice; files arrive in it at any time
DeliveryThreads == <<"general", "general">>
DeliveryFiles == {Msg0101, Msg0102, Notes, Todo}

InitDelivery ==
    /\ InitCoordinator
    /\ InitLoop(DeliveryThreads)
    /\ InitReview(0)
    /\ InitHandler
    /\ InitBoard
    /\ last = Call("init", NoTask, NoAgent, NoAgent, NoTask)

NextDelivery ==
    \/ \E thread \in Range(threads), filename \in DeliveryFiles :
          push(thread, filename)
    \/ \E M \in 0..MaxCycles : run(M, 0)
    \/ for_next
    \/ \E ok \in [1..Len(threads) -> BOOLEAN],
          think \in ThinkReturns \cup {RAISES}, act \in ActReturns :
          cycle(handler_results(threads, last_seen, inbox, ok),
                think, act, NoDesc, FALSE)
    \/ sleep(FALSE)
    \/ sleep_in_handler(FALSE)

SpecDelivery == InitDelivery /\ [][NextDelivery]_vars

\* ---- TaskBoard ------------------------------------------------------------
\* a task of the board, by the keys the operations here read
BoardTask(id, priority) ==
    [id |-> id, status |-> PENDING, priority |-> priority]

BoardCall(op, task_id) == [op |-> op, task_id |-> task_id]

\* _find: the position of the first task with the id, 0 for None
_find(tasklist, task_id) ==
    LET hits == {i \in 1..Len(tasklist) : tasklist[i].id = task_id}
    IN  IF hits = {} THEN 0 ELSE CHOOSE i \in hits : \A j \in hits : i <= j

\* add_task(description, priority="normal")
board_add_task(priority) ==
    /\ _counter < MaxBoard
    /\ _counter' = _counter + 1
    /\ board' = Append(board, BoardTask(_counter + 1, priority))
    /\ last' = BoardCall("add_task", _counter + 1)
    /\ UNCHANGED outsideBoard

\* start_task, complete_task and block_task set the status of the task
\* found, and do nothing for an unknown id
set_status(op, task_id, status) ==
    /\ board' = IF _find(board, task_id) = 0 THEN board
                ELSE [board EXCEPT ![_find(board, task_id)].status = status]
    /\ last' = BoardCall(op, task_id)
    /\ UNCHANGED _counter
    /\ UNCHANGED outsideBoard

start_task(task_id) == set_status("start_task", task_id, IN_PROGRESS)
board_complete_task(task_id) == set_status("complete_task", task_id, COMPLETED)
block_task(task_id) == set_status("block_task", task_id, BLOCKED)

\* no keepalive is ever seen
has_keepalive_never(tasklist) == FALSE

\* any(status == "pending" and priority == "keepalive")
has_keepalive(tasklist) ==
    \E i \in 1..Len(tasklist) :
        tasklist[i].status = PENDING /\ tasklist[i].priority = KEEPALIVE

\* ensure_keepalive(wait_minutes, threads)
ensure_keepalive ==
    /\ IF has_keepalive(board)
       THEN UNCHANGED <<board, _counter>>
       ELSE /\ _counter < MaxBoard
            /\ _counter' = _counter + 1
            /\ board' = Append(board, BoardTask(_counter + 1, KEEPALIVE))
    /\ last' = BoardCall("ensure_keepalive", NoTask)
    /\ UNCHANGED outsideBoard

\* a board on which only ensure_keepalive adds keepalive tasks
NextBoard ==
    \/ board_add_task(NORMAL)
    \/ \E task_id \in 0..MaxBoard : start_task(task_id)
    \/ \E task_id \in 0..MaxBoard : board_complete_task(task_id)
    \/ \E task_id \in 0..MaxBoard : block_task(task_id)
    \/ ensure_keepalive

SpecBoard == Init /\ [][NextBoard]_vars

TypeOK ==
    /\ task_counter \in 0..MaxTasks
    /\ TaskIds = 1..task_counter
    /\ Range(agentOrder) = Registered
    /\ Len(agentOrder) = Cardinality(Registered)

\* ---- vocabulary of the properties --------------------------------------
\* the step just taken was the named call (on task_id id)
Assigning(id) == last'.op = "assign_task" /\ last'.task_id = id
Completing(id) == last'.op = "complete_task" /\ last'.task_id = id

\* some dependency of task id is missing from the table or not COMPLETED
HasIncompleteDep(id) ==
    \E d \in Range(tasks[id].depends_on) :
        d \notin TaskIds \/ tasks[d].status # COMPLETED

Free == {n \in Registered : agents[n].current_task = NoTask}
Matches(req, n) == Cardinality({i \in 1..Len(req) : req[i] \in agents[n].capabilities})

\* ---- C1 ----------------------------------------------------------------
\* C1: assign_task on an existing task with a dependency that is not
\* COMPLETED returns None, leaves the task BLOCKED and assigns nobody: the
\* task's assigned_to and every agent's current_task stay as they were.
C1_BlockedAssignStep ==
    \A id \in TaskIds :
        (Assigning(id) /\ HasIncompleteDep(id)) =>
            /\ last'.raised = NoError
            /\ last'.ret_agent = NoAgent /\ last'.ret_task = NoTask
            /\ tasks'[id].status = BLOCKED
            /\ tasks'[id].assigned_to = tasks[id].assigned_to
            /\ \A n \in Registered :
                   agents'[n].current_task = agents[n].current_task

C1_BlockedAssign == [][C1_BlockedAssignStep]_vars

\* ---- C2 ----------------------------------------------------------------
\* C2: for every task T with depends_on = [D] that an assignment attempt
\* left BLOCKED, complete_task(D) by itself sets T's status to PENDING, and
\* from then on (D COMPLETED, T PENDING) assign_task(T) succeeds when an
\* agent is available.
C2_UnblockStep ==
    \A t \in TaskIds, d \in TaskIds :
        tasks[t].depends_on = <<d>> =>
            /\ (tasks[t].status = BLOCKED /\ Completing(d))
               => tasks'[t].status = PENDING
            /\ (/\ Assigning(t)
                /\ tasks[d].status = COMPLETED
                /\ tasks[t].status = PENDING
                /\ Free # {})
               => /\ last'.ret_agent \in Free /\ last'.ret_task = t
                  /\ tasks'[t].status = ASSIGNED

C2_CompleteUnblocks == [][C2_UnblockStep]_vars

\* ---- C3 ----------------------------------------------------------------
\* C3: in every reachable state each task's blocks list holds exactly the
\* ids of the tasks whose depends_on lists contain that task's id.
C3_BlocksInverse ==
    \A t \in TaskIds :
        Range(tasks[t].blocks) =
            {u \in TaskIds : t \in Range(tasks[u].depends_on)}

\* ---- C4 ----------------------------------------------------------------
\* C4: COMPLETED is terminal: no call changes the status of a task that is
\* COMPLETED.
C4_CompletedStep ==
    \A t \in TaskIds :
        tasks[t].status = COMPLETED => tasks'[t].status = COMPLETED

C4_CompletedTerminal == [][C4_CompletedStep]_vars

\* ---- C5 ----------------------------------------------------------------
\* C5: every status change made by assign_task or complete_task is a listed
\* transition (PENDING to ASSIGNED, ASSIGNED or IN_PROGRESS to COMPLETED,
\* PENDING to BLOCKED, BLOCKED to PENDING), and a task starts in PENDING
\* (a task created by assign_task itself may already be ASSIGNED when the
\* call returns).
ListedTransitions ==
    {<<PENDING, ASSIGNED>>, <<ASSIGNED, COMPLETED>>, <<IN_PROGRESS, COMPLETED>>,
     <<PENDING, BLOCKED>>, <<BLOCKED, PENDING>>}

C5_ListedStep ==
    \A t \in DOMAIN tasks' :
        IF t \in TaskIds
        THEN \/ tasks'[t].status = tasks[t].status
             \/ <<tasks[t].status, tasks'[t].status>> \in ListedTransitions
        ELSE \/ tasks'[t].status = PENDING
             \/ tasks'[t].status = ASSIGNED /\ last'.op = "assign_task"

C5_ListedTransitionsOnly == [][C5_ListedStep]_vars

\* ---- C6 ----------------------------------------------------------------
\* C6: complete_task(t, result) on an existing task t assigned to a
\* registered agent a leaves t COMPLETED with the result stored, clears a's
\* current_task (a is available again) and adds exactly 1 to a's
\* tasks_completed.
C6_CompleteStep ==
    \A t \in TaskIds, a \in Registered :
        (Completing(t) /\ tasks[t].assigned_to = a) =>
            /\ tasks'[t].status = COMPLETED
            /\ tasks'[t].result \in Results
            /\ \A r \in Results : complete_task(t, r) => tasks'[t].result = r
            /\ agents'[a].current_task = NoTask
            /\ agents'[a].tasks_completed = agents[a].tasks_completed + 1

C6_CompleteFreesAgent == [][C6_CompleteStep]_vars

\* a task that was assigned has just been completed: result stored, its
\* agent available with one completed task
C6_Witness ==
    /\ last.op = "complete_task" /\ last.task_id \in TaskIds
    /\ last.raised = NoError
    /\ tasks[last.task_id].status = COMPLETED
    /\ tasks[last.task_id].result \in Results
    /\ tasks[last.task_id].assigned_to \in Registered
    /\ agents[tasks[last.task_id].assigned_to].current_task = NoTask
    /\ agents[tasks[last.task_id].assigned_to].tasks_completed = 1

\* ---- vocabulary of the assignment policy -------------------------------
\* the step is an assign_task call that got as far as choosing an agent: it
\* created its task, or it named an existing task that was not blocked
Selecting ==
    /\ last'.op = "assign_task" /\ last'.raised = NoError
    /\ \/ last'.task_id = NoTask /\ task_counter' = task_counter + 1
       \/ last'.task_id \in TaskIds /\ ~HasIncompleteDep(last'.task_id)

\* the required capabilities of the task that call is about
SelReq ==
    IF last'.task_id = NoTask
    THEN tasks'[task_counter'].required_capabilities
    ELSE tasks[last'.task_id].required_capabilities

Position(n) == CHOOSE i \in 1..Len(agentOrder) : agentOrder[i] = n
FirstFree == CHOOSE n \in Free : \A m \in Free : Position(n) <= Position(m)
Load(n) == agents[n].tasks_completed

\* s is a best match for req among the available agents: no available agent
\* matches more capabilities, none with as many matches has completed less
BestMatch(s, req) ==
    /\ s \in Free
    /\ \A b \in Free :
          /\ Matches(req, b) <= Matches(req, s)
          /\ Matches(req, b) = Matches(req, s) => Load(b) >= Load(s)

\* ---- C7 ----------------------------------------------------------------
\* C7: when no preferred agent applies (none named, unknown, or busy) and
\* some available agent has at least one required capability, assign_task
\* selects an available agent with the maximal match count and, among those,
\* minimal tasks_completed; no call ever selects an unavailable agent.
C7_BestMatchStep ==
    /\ (/\ Selecting
        /\ last'.prefer \notin Free
        /\ \E n \in Free : Matches(SelReq, n) > 0)
       => BestMatch(last'.ret_agent, SelReq)
    /\ (last'.op = "assign_task" /\ last'.ret_agent # NoAgent)
       => last'.ret_agent \in Free

C7_BestMatch == [][C7_BestMatchStep]_vars

\* the selected agent matched more capabilities than an available agent that
\* was registered earlier and has completed fewer tasks
C7_Witness ==
    /\ last.op = "assign_task" /\ last.prefer = NoAgent
    /\ last.ret_agent \in Registered /\ last.ret_task \in TaskIds
    /\ LET s == last.ret_agent
           req == tasks[last.ret_task].required_capabilities
       IN  \E b \in Free :
              /\ 0 < Matches(req, b) /\ Matches(req, b) < Matches(req, s)
              /\ Load(b) < Load(s)
              /\ Position(b) < Position(s)

\* ---- C8 ----------------------------------------------------------------
\* C8: when the task has required capabilities and no available agent has
\* any of them, assign_task (no preferred agent applying) falls back to the
\* first available agent in registration order, whatever the agents'
\* tasks_completed counts.
C8_FallbackStep ==
    (/\ Selecting
     /\ last'.prefer \notin Free
     /\ SelReq # <<>>
     /\ Free # {}
     /\ \A n \in Free : Matches(SelReq, n) = 0)
    => last'.ret_agent = FirstFree

Disjoint ==
    /\ Cardinality(Registered) >= 2
    /\ \A a \in Registered, b \in Registered :
          a # b => agents[a].capabilities \cap agents[b].capabilities = {}

OnlyMatch(m, req) ==
    /\ m \in Registered
    /\ \A n \in Registered : (Matches(req, n) > 0) <=> (n = m)

\* C9 as stated: with pairwise disjoint capability sets and a task whose
\* required capabilities meet exactly one agent's set, assign_task without
\* a preferred agent always selects that agent, in any registration order.
C9_OnlyMatchStep ==
    \A m \in Registered :
        (/\ Selecting
         /\ last'.prefer = NoAgent
         /\ Disjoint
         /\ OnlyMatch(m, SelReq)) => last'.ret_agent = m

C9_OnlyMatchAlways == [][C9_OnlyMatchStep]_vars

\* C9 amended: the same, provided that agent is available when assign_task
\* is called.
C9_OnlyMatchFreeStep ==
    \A m \in Free :
        (/\ Selecting
         /\ last'.prefer = NoAgent
         /\ Disjoint
         /\ OnlyMatch(m, SelReq)) => last'.ret_agent = m

C9_OnlyMatchWhenAvailable == [][C9_OnlyMatchFreeStep]_vars

\* the only matching agent was selected although an agent registered before
\* it was available too
C9_Witness ==
    /\ last.op = "assign_task" /\ last.prefer = NoAgent
    /\ last.ret_agent \in Registered /\ last.ret_task \in TaskIds
    /\ Disjoint
    /\ OnlyMatch(last.ret_agent, tasks[last.ret_task].required_capabilities)
    /\ \E b \in Free : Position(b) < Position(last.ret_agent)

\* ---- C10 ---------------------------------------------------------------
\* the choice the capability rule makes among the available agents
NormalChoice(s, req) ==
    IF \E n \in Free : req = <<>> \/ Matches(req, n) > 0
    THEN /\ (req = <<>> \/ Matches(req, s) > 0)
         /\ BestMatch(s, req)
    ELSE IF Free # {} THEN s = FirstFree ELSE s = NoAgent

\* C10: a preferred agent that is registered and available is selected
\* unconditionally; when the preferred agent is busy or unknown the normal
\* capability rule decides and the result is never that agent.
C10_PreferStep ==
    /\ (Selecting /\ last'.prefer \in Free)
       => last'.ret_agent = last'.prefer
    /\ (Selecting /\ last'.prefer # NoAgent /\ last'.prefer \notin Free)
       => /\ NormalChoice(last'.ret_agent, SelReq)
          /\ last'.ret_agent # last'.prefer

C11_NoAgentStep ==
    (/\ last'.op = "assign_task"
     /\ Free = {}
     /\ \/ last'.description
        \/ last'.task_id \in TaskIds /\ ~HasIncompleteDep(last'.task_id))
    => /\ last'.raised = NoError
       /\ last'.ret_agent = NoAgent /\ last'.ret_task = NoTask
       /\ last'.task_id \in TaskIds =>
              /\ tasks'[last'.task_id].status = tasks[last'.task_id].status
              /\ tasks'[last'.task_id].assigned_to
                     = tasks[last'.task_id].assigned_to
       /\ last'.description =>
              /\ tasks'[task_counter'].status = PENDING
              /\ tasks'[task_counter'].assigned_to = NoAgent
       /\ \A n \in Registered :
              /\ agents'[n].current_task = agents[n].current_task
              /\ agents'[n].tasks_completed = agents[n].tasks_completed

C11_NoAgentAvailable == [][C11_NoAgentStep]_vars

\* ---- C12 ---------------------------------------------------------------
\* C12: complete_task with an id that names no task, assign_task with an id
\* that names no task and assign_task with neither id nor description return
\* without raising and change no task, no agent and not the task counter.
C12_UnknownStep ==
    (\/ last'.op = "complete_task" /\ last'.task_id \notin TaskIds
     \/ /\ last'.op = "assign_task"
        /\ ~last'.description
        /\ last'.task_id \notin TaskIds)
    => /\ last'.raised = NoError
       /\ last'.ret_agent = NoAgent /\ last'.ret_task = NoTask
       /\ tasks' = tasks
       /\ agents' = agents /\ agentOrder' = agentOrder
       /\ task_counter' = task_counter

C12_UnknownIdsNoOp == [][C12_UnknownStep]_vars

\* complete_task on an id outside a non-empty task table has returned
C12_Witness ==
    /\ last.op = "complete_task" /\ last.task_id \notin TaskIds
    /\ last.raised = NoError
    /\ TaskIds # {} /\ Registered # {}

\* ---- C13 ---------------------------------------------------------------
\* C13: ids come from a counter that only grows: the k-th task created (by
\* create_task or by assign_task with a description) gets id Tk, the ids in
\* use are always T1..T<counter>, and a creation never takes the id, or
\* replaces the record, of an existing task.
Creating == last'.op = "create_task" \/ (last'.op = "assign_task" /\ last'.description)

C13_CounterStep ==
    /\ TaskIds' = 1..task_counter'
    /\ \A t \in TaskIds :
          /\ t \in TaskIds'
          /\ tasks'[t].depends_on = tasks[t].depends_on
          /\ tasks'[t].required_capabilities = tasks[t].required_capabilities
    /\ IF Creating
       THEN /\ task_counter' = task_counter + 1
            /\ TaskIds' = TaskIds \cup {task_counter + 1}
            /\ last'.op = "create_task" => last'.ret_task = task_counter + 1
       ELSE task_counter' = task_counter /\ TaskIds' = TaskIds

C13_SequentialIds == [][C13_CounterStep]_vars

\* the second task was created by assign_task after a create_task, and the
\* first one has been completed in between
C13_Witness ==
    /\ last.op = "assign_task" /\ last.description
    /\ task_counter = 2 /\ TaskIds = {1, 2}
    /\ tasks[1].status = COMPLETED

\* ---- C14 ---------------------------------------------------------------
\* C14: no call removes a registered agent or lowers an agent's
\* tasks_completed.
C14_MonotoneStep ==
    \A n \in Registered :
        /\ n \in Registered'
        /\ agents'[n].tasks_completed >= agents[n].tasks_completed

C14_CompletedMonotone == [][C14_MonotoneStep]_vars

\* ---- C15 ---------------------------------------------------------------
\* the dependencies of task t that exist, and the tasks reachable from a set
\* of tasks along depends_on
DepsIn(t) == Range(tasks[t].depends_on) \cap TaskIds

ReachFrom(S) ==
    LET n == Cardinality(TaskIds)
        F[i \in 0..n] ==
            IF i = 0 THEN S
            ELSE F[i-1] \cup UNION {DepsIn(x) : x \in F[i-1]}
    IN  F[n]

OnCycle(t) == t \in ReachFrom(DepsIn(t))

\* C15: whenever the depends_on graph has a cycle, the list check_conflicts
\* returns holds a circular-dependency entry for every task on the cycle,
\* and the walk from any task nests no deeper than the number of tasks
\* plus one.
C15_CyclesReported ==
    last.op = "check_conflicts" =>
        /\ last.raised = NoError
        /\ \A t \in TaskIds :
              /\ OnCycle(t) => Circular(t) \in Range(last.ret_list)
              /\ WalkDepth(tasks, t, {}) <= Cardinality(TaskIds) + 1

\* check_conflicts has reported both tasks of a two-task cycle
C15_Witness ==
    /\ last.op = "check_conflicts"
    /\ \E t \in TaskIds, u \in TaskIds :
          /\ t # u /\ u \in DepsIn(t) /\ t \in DepsIn(u)
          /\ Circular(t) \in Range(last.ret_list)
          /\ Circular(u) \in Range(last.ret_list)

\* ---- C16 ---------------------------------------------------------------
ActiveOn(l) ==
    {t \in TaskIds : tasks[t].thread = l
                        /\ tasks[t].status \in {ASSIGNED, IN_PROGRESS}}

ThreadEntries == {i \in 1..Len(last.ret_list) : last.ret_list[i].kind = "thread"}

\* C16: the list check_conflicts returns has a thread-conflict entry for a
\* label exactly when more than one task with that label is ASSIGNED or
\* IN_PROGRESS, one entry per such label, naming those tasks and their
\* assignees; tasks without a label never produce one.
C16_ThreadConflicts ==
    last.op = "check_conflicts" =>
        /\ \A l \in Threads :
              (\E i \in ThreadEntries : last.ret_list[i].thread = l)
                  <=> (l # NoThread /\ Cardinality(ActiveOn(l)) > 1)
        /\ \A i \in ThreadEntries :
              /\ Range(last.ret_list[i].involved)
                    = {<<t, tasks[t].assigned_to>> :
                          t \in ActiveOn(last.ret_list[i].thread)}
              /\ \A j \in ThreadEntries :
                    last.ret_list[j].thread = last.ret_list[i].thread => j = i

\* a conflict was reported between an ASSIGNED and an IN_PROGRESS task of
\* two different agents
C16_Witness ==
    /\ last.op = "check_conflicts"
    /\ ThreadEntries # {}
    /\ \E t \in TaskIds, u \in TaskIds :
          /\ tasks[t].thread = tasks[u].thread /\ tasks[t].thread # NoThread
          /\ tasks[t].status = ASSIGNED /\ tasks[u].status = IN_PROGRESS
          /\ tasks[t].assigned_to # tasks[u].assigned_to

\* ---- C17 ---------------------------------------------------------------
\* C17: get_available_tasks returns exactly the tasks that are PENDING and
\* whose dependencies are all COMPLETED at the time of the call.
C17_AvailableTasks ==
    last.op = "get_available_tasks" =>
        /\ last.raised = NoError
        /\ Range(last.ret_list)
              = {t \in TaskIds : tasks[t].status = PENDING /\ ~HasIncompleteDep(t)}

\* ---- C18 ---------------------------------------------------------------
\* C18: a cycle that takes an action sets the idle counter to zero, a cycle
\* that takes none adds one to it, and the loop stops right after a cycle
\* exactly when stop_when_idle = N > 0 and the counter has reached N; with
\* stop_when_idle = 0 no cycle stops the loop.
C18_IdleStep ==
    (last'.op = "cycle" /\ ~last'.interrupted) =>
        /\ idle_count' = IF last'.acted # NoDesc THEN 0 ELSE idle_count + 1
        /\ (pc' = "done")
              <=> (stop_when_idle > 0 /\ idle_count' >= stop_when_idle)

C18_IdleStop == [][C18_IdleStep]_vars

\* ---- C19 ---------------------------------------------------------------
\* what is left of run: three steps (loop head, try body, sleep) for every
\* iteration not yet started, plus the steps left of the current one
Rank ==
    CASE pc = "for" -> 1
      [] pc = "cycle" -> 3
      [] pc \in {"sleep", "except"} -> 2
      [] OTHER -> 0

Measure == IF pc = "done" THEN 0 ELSE 3 * (max_cycles - iterations) + Rank

\* C19: run(max_cycles = M) never starts more than M cycles and every step
\* of run brings it closer to its end, so it terminates; when it ends with
\* stop_when_idle = 0 and without an interrupt it has run exactly M cycles,
\* whether or not some of them raised.
C19_RunStep ==
    /\ cycle_count' <= max_cycles'
    /\ (pc # "new" /\ last'.op # "add_task")
          => (Measure' < Measure /\ Measure' >= 0)
    /\ (pc' = "done" /\ stop_when_idle = 0 /\ ~last'.interrupted)
          => cycle_count' = max_cycles

C19_MaxCycles == [][C19_RunStep]_vars

\* run has ended on its budget after two or more cycles, one of which left
\* no record because think_fn raised
C19_Witness ==
    /\ pc = "done" /\ last.op = "for"
    /\ stop_when_idle = 0
    /\ max_cycles >= 2 /\ cycle_count = max_cycles
    /\ Len(history) < cycle_count

\* ---- C20 ---------------------------------------------------------------
\* a collaborator raised in the cycle just run
CycleRaised ==
    /\ last'.op = "cycle" /\ ~last'.interrupted
    /\ \/ last'.fetch_failed
       \/ last'.think = RAISES
       \/ last'.act = RAISES
       \/ last'.observer = RAISES

\* C20: run leaves its loop only when the cycle budget is used up, when the
\* idle counter has reached a positive stop_when_idle, or on an interrupt;
\* after a cycle in which the monitor step, think_fn, act_fn or on_cycle
\* raised, run sleeps, returns to the loop head and starts the next cycle
\* if the budget allows one.
C20_ExitStep ==
    /\ (pc' = "done" /\ pc # "done") =>
          \/ pc = "for" /\ iterations = max_cycles
          \/ pc = "cycle" /\ stop_when_idle > 0 /\ idle_count' >= stop_when_idle
          \/ last'.interrupted
    /\ CycleRaised =>
          \/ pc' \in {"sleep", "except"}
          \/ pc' = "done" /\ stop_when_idle > 0 /\ idle_count' >= stop_when_idle
    /\ (pc \in {"sleep", "except"} /\ last'.op # "add_task" /\ ~last'.interrupted)
          => pc' = "for"
    /\ (pc = "for" /\ iterations < max_cycles) => pc' = "cycle"

C20_OnlyThreeExits == [][C20_ExitStep]_vars

\* a cycle is running after an earlier cycle was cut short by think_fn
\* raising
C20_Witness ==
    /\ pc = "cycle"
    /\ cycle_count >= 1 /\ Len(history) < cycle_count

\* ---- C21 ---------------------------------------------------------------
\* the record the cycle just run appended to history
Appended == history'[Len(history')]

\* C21: when act_fn raises in a cycle, the cycle still appends its record,
\* with action_taken the FAILED form of the task and pr_url None, and run
\* goes on as after any cycle with an action: it sleeps in the try body
\* (unless on_cycle raises as well) with the idle counter at zero.
C21_ActFailStep ==
    (last'.op = "cycle" /\ last'.act = RAISES) =>
        /\ Len(history') = Len(history) + 1
        /\ SubSeq(history', 1, Len(history)) = history
        /\ Appended.cycle_number = cycle_count'
        /\ Appended.action_taken = [failed |-> TRUE, task |-> last'.acted]
        /\ last'.acted # NoDesc
        /\ Appended.pr_url = NoUrl
        /\ last'.observer # RAISES => (pc' = "sleep" /\ idle_count' = 0)

C21_ActFailureRecorded == [][C21_ActFailStep]_vars

\* a cycle whose action failed was followed by a cycle whose action
\* succeeded
C21_Witness ==
    /\ Len(history) >= 2
    /\ history[1].action_taken.failed /\ history[1].pr_url = NoUrl
    /\ ~history[2].action_taken.failed
    /\ history[2].action_taken.task # NoDesc

\* ---- C24 ---------------------------------------------------------------
\* C24: in a cycle think_fn is called exactly when the monitor step returned
\* a new message or pending_tasks is non-empty; a cycle with no new message
\* and an empty queue calls neither think_fn nor act_fn and records no
\* action.
C24_ThinkStep ==
    (last'.op = "cycle" /\ ~last'.interrupted) =>
        /\ last'.think_called
              <=> (last'.new_messages > 0 \/ pending_tasks # <<>>)
        /\ (last'.new_messages = 0 /\ pending_tasks = <<>>) =>
              /\ last'.acted = NoDesc
              /\ Len(history') = Len(history) + 1
              /\ Appended.action_taken = NoAction

C24_ThinkWhenNeeded == [][C24_ThinkStep]_vars

\* a cycle without messages and deferred tasks has run after a cycle in
\* which think_fn was called
C24_Witness ==
    /\ last.op = "cycle" /\ ~last.think_called /\ ~last.interrupted
    /\ Len(history) >= 2
    /\ history[1].action_taken.task # NoDesc
    /\ history[2].action_taken = NoAction

\* ---- C25 ---------------------------------------------------------------
\* C25: add_task appends to the queue; a cycle in which think_fn produced
\* no task and the queue is non-empty removes the first queued task and hands
\* exactly that task to act_fn; a cycle in which think_fn produced a task
\* hands that task to act_fn and leaves the queue as it was; no cycle
\* removes more than one task.
C25_FifoStep ==
    /\ last'.op = "add_task" => pending_tasks' = Append(pending_tasks, last'.acted)
    /\ (last'.op = "cycle" /\ ~last'.interrupted /\ last'.think # RAISES) =>
          /\ (last'.think \in {NoDesc, ""} /\ pending_tasks # <<>>) =>
                /\ pending_tasks' = Tail(pending_tasks)
                /\ last'.acted = Head(pending_tasks)
          /\ last'.think \notin {NoDesc, ""} =>
                /\ pending_tasks' = pending_tasks
                /\ last'.acted = last'.think
    /\ last'.op = "cycle" =>
          \/ pending_tasks' = pending_tasks
          \/ pending_tasks # <<>> /\ pending_tasks' = Tail(pending_tasks)

C25_DeferredFifo == [][C25_FifoStep]_vars

\* two deferred tasks were acted on in the order they were queued, the
\* first while the second was still waiting
C25_Witness ==
    /\ Len(history) >= 2
    /\ history[1].action_taken.task \in TaskDescs
    /\ history[2].action_taken.task \in TaskDescs
    /\ history[1].next_task = history[2].action_taken.task
    /\ history[1].action_taken.task # history[2].action_taken.task
    /\ pending_tasks = <<>>

\* ---- C29 ---------------------------------------------------------------
\* the tasks listed in the blocks of task d that exist, and whether every
\* dependency of task t is COMPLETED in the table ts
ListedDependents(d) == Range(tasks[d].blocks) \cap TaskIds

AllDepsCompleted(ts, t) ==
    \A x \in Range(ts[t].depends_on) :
        x \in DOMAIN ts => ts[x].status = COMPLETED

\* C29: complete_task(D) on an existing task returns and propagates locally:
\* a task listed in D's blocks whose dependencies are all COMPLETED after the
\* call is PENDING, a listed task with another incomplete dependency keeps
\* its status, and no task other than D and the listed ones changes status.
C29_LocalStep ==
    (last'.op = "complete_task" /\ last'.task_id \in TaskIds) =>
        LET d == last'.task_id
        IN  /\ last'.raised = NoError
            /\ \A t \in TaskIds \ {d} :
                  IF t \in ListedDependents(d)
                  THEN IF AllDepsCompleted(tasks', t)
                       THEN tasks'[t].status = PENDING
                       ELSE tasks'[t].status = tasks[t].status
                  ELSE tasks'[t].status = tasks[t].status

C29_LocalPropagation == [][C29_LocalStep]_vars

\* ---- C30 ---------------------------------------------------------------
\* the tasks from which a cycle of the depends_on graph can be reached, and
\* the circular-dependency entries of a returned list
LeadsToCycle(t) == \E u \in ReachFrom({t}) : OnCycle(u)

CircularEntries(list) ==
    {i \in 1..Len(list) : list[i].kind = "circular"}

\* C30 as stated: check_conflicts returns as many circular-dependency
\* entries as there are tasks on a cycle
C30_OnePerCycleTask ==
    last.op = "check_conflicts" =>
        Cardinality(CircularEntries(last.ret_list))
            = Cardinality({t \in TaskIds : OnCycle(t)})

\* C30: check_conflicts returns one circular-dependency entry for every
\* task that lies on a cycle of depends_on or from which such a cycle can be
\* reached, in the order of the task table, and no other; so a cycle of
\* length k gives exactly k entries when no task outside it leads into it.
C30_OnePerLeadingTask ==
    last.op = "check_conflicts" =>
        LET list == last.ret_list
            entries == CircularEntries(list)
        IN  /\ \A t \in TaskIds :
                  LeadsToCycle(t) <=>
                      \E i \in entries : list[i].task_id = t
            /\ \A i \in entries, j \in entries :
                  i < j => list[i].task_id < list[j].task_id
            /\ (\A t \in TaskIds : LeadsToCycle(t) => OnCycle(t)) =>
                  Cardinality(entries)
                      = Cardinality({t \in TaskIds : OnCycle(t)})

\* check_conflicts has reported a task that is on no cycle but depends on
\* a task that is
C30_Witness ==
    /\ last.op = "check_conflicts"
    /\ \E t \in TaskIds :
          /\ ~OnCycle(t) /\ LeadsToCycle(t)
          /\ Circular(t) \in Range(last.ret_list)

\* ---- C22 ---------------------------------------------------------------
\* the messages the handler gave for the threads whose call did not raise,
\* in thread order
Collected(ths, fetched) ==
    LET F[i \in 0..Len(ths)] ==
            IF i = 0 THEN <<>>
            ELSE IF fetched[i].raised THEN F[i-1]
            ELSE F[i-1] \o [k \in 1..Len(fetched[i].messages) |->
                               Message(ths[i], fetched[i].messages[k])]
    IN  F[Len(ths)]

\* C22: a handler call that raises for one thread does not end the cycle:
\* every configured thread is polled, the failing thread contributes no
\* message and keeps its watermark, the messages of the other threads are
\* collected, and the cycle goes on to think (when there is something to
\* think about), act and the history record.
C22_FetchStep ==
    (last'.op = "cycle" /\ ~last'.interrupted) =>
        LET fetched == last'.fetched
            all_new == Collected(threads, fetched)
        IN  /\ Len(last'.polled) = Len(threads)
            /\ last'.new_messages = Len(all_new)
            /\ \A i \in 1..Len(threads) :
                  fetched[i].raised =>
                      /\ last_seen'[threads[i]] = last_seen[threads[i]]
                      /\ \A k \in 1..Len(all_new) :
                            all_new[k].thread # threads[i]
            /\ last'.think_called
                  <=> (all_new # <<>> \/ pending_tasks # <<>>)
            /\ last'.think # RAISES =>
                  /\ Len(history') = Len(history) + 1
                  /\ Appended.new_messages = all_new
                  /\ Truthy(last'.think) =>
                        /\ last'.acted = last'.think
                        /\ Appended.action_taken.task = last'.think

C22_FetchFailureTolerated == [][C22_FetchStep]_vars

\* the handler raised for the first thread and gave a message for the
\* second one in the same cycle, and the cycle acted on it
C22_Witness ==
    /\ last.op = "cycle" /\ last.fetch_failed
    /\ last.fetched[1].raised
    /\ last.fetched[2].messages # <<>>
    /\ last.acted # NoDesc
    /\ history # <<>>
    /\ history[Len(history)].new_messages
          = <<Message(threads[2], Msg0102), Message(threads[2], Msg0101)>>
    /\ last_seen[threads[1]] = Empty
    /\ last_seen[threads[2]] # Empty

\* ---- C23 ---------------------------------------------------------------
\* the greatest of a watermark and a list of file names
StrLeq(a, b) == a = b \/ StrLess(a, b)

Greatest(current, filenames) ==
    LET S == {current} \cup Range(filenames)
    IN  CHOOSE m \in S : \A f \in S : StrLeq(f, m)

\* C23: the watermark of every thread only advances: no step decreases it,
\* and after a monitor step it is the greatest of its former value and the
\* file names the handler gave for the thread in this step, so that no
\* message recorded in the history lies above it.
C23_WatermarkStep ==
    /\ \A t \in Range(threads) : StrLeq(last_seen[t], last_seen'[t])
    /\ (last'.op = "cycle" /\ ~last'.interrupted) =>
          \A i \in 1..Len(threads) :
              last_seen'[threads[i]] =
                  IF last'.fetched[i].raised THEN last_seen[threads[i]]
                  ELSE Greatest(last_seen[threads[i]],
                                last'.fetched[i].messages)
    /\ \A c \in 1..Len(history') :
          \A k \in 1..Len(history'[c].new_messages) :
              LET msg == history'[c].new_messages[k]
              IN  StrLeq(msg.filename, last_seen'[msg.thread])

C23_WatermarkAdvances == [][C23_WatermarkStep]_vars

\* the handler gave a newer message and then an older one for a thread in
\* two cycles, and the watermark is at the newer one
C23_Witness ==
    /\ last.op = "cycle"
    /\ Len(history) >= 2
    /\ \E i \in 1..Len(threads) :
          /\ last.fetched[i].messages = <<Msg0102, Msg0101>>
          /\ last.polled[i] = "get_new_messages"
          /\ last_seen[threads[i]] = Msg0102

\* ---- C26 ---------------------------------------------------------------
\* C26: the overall verdict of a review is REJECT if some criterion gave
\* REJECT, else REVISE if some criterion gave REVISE, else ACCEPT; it is
\* decided by the set of verdicts given, so neither the order of the
\* criteria nor an ABSTAIN changes it, and the results listed as issues are
\* those with REJECT or REVISE.
C26_StrictPrecedence ==
    last.op = "review" =>
        LET given == Range(last.results)
        IN  /\ Len(last.results) = criteria
            /\ last.overall_verdict =
                  IF REJECT \in given THEN REJECT
                  ELSE IF REVISE \in given THEN REVISE
                  ELSE ACCEPT
            /\ given \subseteq {ACCEPT, ABSTAIN} =>
                  last.overall_verdict = ACCEPT /\ last.issues = {}
            /\ \A i \in 1..Len(last.results) :
                  i \in last.issues <=> last.results[i] \in {REJECT, REVISE}

\* a review in which a criterion asking for revision came before one that
\* rejected, with an abstention among them, ended in REJECT
C26_Witness ==
    /\ last.op = "review"
    /\ Len(last.results) >= 3
    /\ last.results[1] = REVISE
    /\ ABSTAIN \in Range(last.results)
    /\ REJECT \in Range(last.results)
    /\ last.overall_verdict = REJECT

\* ---- C27 ---------------------------------------------------------------
\* a comes before b in the order of the sort keys
KeyLess27(a, b) == StrLess(sort_key(a), sort_key(b))

\* the message files of a thread directory
MessageFiles(thread) ==
    {f \in inbox[thread] : endswith_md(f) /\ f # Metadata}

\* C27: what list_messages, read_thread and get_new_messages return is
\* ordered by the timestamp prefix of the file names, a name without a
\* prefix counting as 00000000-0000 and so coming before every name with
\* one; read_thread(last_n) returns the last_n last names of this order and
\* get_new_messages(after) the names whose key is above the key of after.
C27_OrderedBySortKey ==
    (/\ last.op \in {"list_messages", "read_thread", "get_new_messages"}
     /\ last.raised = NoError) =>
        LET ret == last.ret_names
            files == MessageFiles(last.thread)
        IN  /\ \A i \in 1..Len(ret), j \in 1..Len(ret) :
                  i < j => ~KeyLess27(ret[j], ret[i])
            /\ \A i \in 1..Len(ret) :
                  ~match_prefix(ret[i]) =>
                      \A j \in 1..(i - 1) : ~match_prefix(ret[j])
            /\ last.op = "read_thread" =>
                  \A f \in files \ Range(ret), g \in Range(ret) :
                      ~KeyLess27(g, f)
            /\ last.op = "get_new_messages" =>
                  Range(ret) = {f \in files : KeyLess27(last.after, f)}

\* ---- C28 ---------------------------------------------------------------
\* the keepalive tasks of a task list and the pending ones among them, by
\* position
Keepalives(tasklist) ==
    {i \in 1..Len(tasklist) : tasklist[i].priority = KEEPALIVE}

PendingKeepalives(tasklist) ==
    {i \in Keepalives(tasklist) : tasklist[i].status = PENDING}

\* C28: on a board where only ensure_keepalive adds keepalive tasks, at
\* most one keepalive task is pending; ensure_keepalive appends a keepalive
\* task with the next id exactly when none is pending and changes nothing
\* otherwise, a keepalive task is pending after every call, and the number
\* of keepalive tasks grows only in a step that starts with none pending.
C28_KeepaliveStep ==
    /\ Cardinality(PendingKeepalives(board')) <= 1
    /\ Cardinality(Keepalives(board')) > Cardinality(Keepalives(board)) =>
          /\ last'.op = "ensure_keepalive"
          /\ PendingKeepalives(board) = {}
    /\ last'.op = "ensure_keepalive" =>
          /\ PendingKeepalives(board') # {}
          /\ IF PendingKeepalives(board) # {}
             THEN board' = board /\ _counter' = _counter
             ELSE /\ board' = Append(board, BoardTask(_counter + 1, KEEPALIVE))
                  /\ _counter' = _counter + 1

C28_OnePendingKeepalive == [][C28_KeepaliveStep]_vars

\* ensure_keepalive was called again with a keepalive pending, after an
\* earlier keepalive task had been completed and replaced
C28_Witness ==
    /\ last.op = "ensure_keepalive"
    /\ Cardinality(Keepalives(board)) = 2
    /\ Cardinality(PendingKeepalives(board)) = 1
    /\ \E i \in Keepalives(board) : board[i].status = COMPLETED
    /\ _counter = Len(board)

\* ---- C31 ---------------------------------------------------------------
\* C31: for a task without required capabilities, assign_task (no preferred
\* agent applying) selects the first available agent in registration order,
\* whatever the agents' tasks_completed counts, as it does for a task whose
\* capabilities match no available agent.
C31_NoCapsStep ==
    (/\ Selecting
     /\ last'.prefer \notin Free
     /\ SelReq = <<>>
     /\ Free # {})
    => last'.ret_agent = FirstFree

C31_NoCapsFirstRegistered == [][C31_NoCapsStep]_vars

\* ---- C32 ---------------------------------------------------------------
\* C32: an agent whose current_task is t is the assignee of t, and t is
\* ASSIGNED.
C32_BusyWithAssigned ==
    \A n \in Registered :
        agents[n].current_task # NoTask =>
            /\ agents[n].current_task \in TaskIds
            /\ tasks[agents[n].current_task].assigned_to = n
            /\ tasks[agents[n].current_task].status = ASSIGNED

\* ---- C33 ---------------------------------------------------------------
\* C33: no agent is the assignee of two tasks that are ASSIGNED at the same
\* time.
C33_OneAssignedTask ==
    \A t \in TaskIds, u \in TaskIds :
        (/\ t # u
         /\ tasks[t].status = ASSIGNED /\ tasks[u].status = ASSIGNED
         /\ tasks[t].assigned_to # NoAgent)
        => tasks[t].assigned_to # tasks[u].assigned_to

\* ---- C34 ---------------------------------------------------------------
\* C34: complete_task on a task that is already COMPLETED changes no
\* agent's current_task or tasks_completed and no task's status.
C34_AgainStep ==
    (/\ last'.op = "complete_task"
     /\ last'.task_id \in TaskIds
     /\ tasks[last'.task_id].status = COMPLETED)
    => /\ \A n \in Registered :
             /\ agents'[n].current_task = agents[n].current_task
             /\ agents'[n].tasks_completed = agents[n].tasks_completed
       /\ \A t \in TaskIds : tasks'[t].status = tasks[t].status

C34_CompleteIdempotent == [][C34_AgainStep]_vars

\* ---- C35 ---------------------------------------------------------------
HasMissingDep(id) == \E d \in Range(tasks[id].depends_on) : d \notin TaskIds

\* C35: a dependency id that names no task counts as unresolved: assign_task
\* on the depending task returns None and marks it BLOCKED, and
\* get_available_tasks returns a list without it.
C35_MissingStep ==
    /\ \A id \in TaskIds :
           (Assigning(id) /\ HasMissingDep(id)) =>
               /\ last'.raised = NoError
               /\ last'.ret_agent = NoAgent /\ last'.ret_task = NoTask
               /\ tasks'[id].status = BLOCKED
    /\ (last'.op = "get_available_tasks"
          /\ \E id \in TaskIds : tasks[id].status = PENDING /\ HasMissingDep(id))
       => /\ last'.raised = NoError
          /\ \A id \in Range(last'.ret_list) : ~HasMissingDep(id)

C35_MissingDepUnresolved == [][C35_MissingStep]_vars

\* ---- C36 ---------------------------------------------------------------
Acyclic == \A t \in TaskIds : ~OnCycle(t)

\* C36: check_conflicts reports no circular dependency for an acyclic
\* depends_on graph, also when a task can be reached along two paths, when a
\* depends_on list repeats an id and when a dependency names no task.
C36_AcyclicNotReported ==
    (last.op = "check_conflicts" /\ Acyclic)
    => CircularEntries(last.ret_list) = {}

\* check_conflicts has returned the empty list for an acyclic graph with a
\* diamond (d depends on b and c, which both depend on a), a depends_on list
\* with the same id twice and a dependency on an id that no task has
C36_Witness ==
    /\ last.op = "check_conflicts" /\ last.ret_list = <<>>
    /\ Acyclic
    /\ \E a \in TaskIds, b \in TaskIds, c \in TaskIds, d \in TaskIds :
          /\ Cardinality({a, b, c, d}) = 4
          /\ {b, c} \subseteq DepsIn(d)
          /\ a \in DepsIn(b) /\ a \in DepsIn(c)
    /\ \E t \in TaskIds :
          /\ Len(tasks[t].depends_on) = 2
          /\ tasks[t].depends_on[1] = tasks[t].depends_on[2]
    /\ \E t \in TaskIds : \E x \in Range(tasks[t].depends_on) : x \notin TaskIds

\* ---- C37 ---------------------------------------------------------------
BetweenCycles == pc \in {"for", "sleep", "except", "done"}

\* C37: between cycles and after run has returned, history holds one record
\* per cycle started, the i-th with cycle_number i (a cycle cut short by
\* KeyboardInterrupt is left aside).
C37_OneRecordPerCycle ==
    (BetweenCycles /\ ~(last.op = "cycle" /\ last.interrupted))
    => /\ Len(history) = cycle_count
       /\ \A i \in 1..Len(history) : history[i].cycle_number = i

\* ---- C40 ---------------------------------------------------------------
\* C40: a cycle that takes a deferred task hands the oldest one to act_fn
\* and has removed it from the queue; the task was handed to act_fn in no
\* earlier cycle, and no cycle puts a task on the queue. When act_fn raises,
\* the record shows the failed action and the idle counter is treated as in
\* any cycle with an action: zero when the cycle returns, left alone when the
\* observer raises.
C40_DeferredOnceStep ==
    /\ last'.op = "cycle" => Range(pending_tasks') \subseteq Range(pending_tasks)
    /\ (/\ last'.op = "cycle" /\ ~last'.interrupted
        /\ last'.think \in {NoDesc, ""}
        /\ pending_tasks # <<>>)
       => LET task == Head(pending_tasks)
          IN  /\ last'.acted = task
              /\ task \notin Range(pending_tasks')
              /\ \A i \in 1..Len(history) : history[i].action_taken.task # task
              /\ last'.act = RAISES =>
                    /\ Appended.action_taken = [failed |-> TRUE, task |-> task]
                    /\ idle_count' = IF last'.observer = RAISES
                                     THEN idle_count ELSE 0

Delivered == Collected(threads, last'.fetched)

\* ---- C38 ---------------------------------------------------------------
\* C38: in a cycle whose fetch of a channel with a watermark succeeds, every
\* message of the channel with an identifier greater than the watermark is
\* among the new messages of the cycle.
C38_DeliveryStep ==
    (last'.op = "cycle" /\ ~last'.interrupted) =>
        \A i \in 1..Len(threads) :
            (last_seen[threads[i]] # Empty /\ ~last'.fetched[i].raised) =>
                \A f \in MessageFiles(threads[i]) :
                    StrLess(last_seen[threads[i]], f) =>
                        Message(threads[i], f) \in Range(Delivered)

C38_EventualDelivery == [][C38_DeliveryStep]_vars

\* ---- C39 ---------------------------------------------------------------
\* C39: the new messages of a cycle hold no message twice, every one of
\* them is above the watermark its channel had before the cycle, and none is
\* in the record of an earlier cycle; the messages of the earlier records are
\* at or below the watermarks.
C39_OnceStep ==
    (last'.op = "cycle" /\ ~last'.interrupted) =>
        /\ \A j \in 1..Len(Delivered), k \in 1..Len(Delivered) :
              j # k => Delivered[j] # Delivered[k]
        /\ \A k \in 1..Len(Delivered) :
              StrLess(last_seen[Delivered[k].thread], Delivered[k].filename)
        /\ \A c \in 1..Len(history) :
              \A m \in Range(history[c].new_messages) :
                  /\ m \notin Range(Delivered)
                  /\ StrLeq(m.filename, last_seen[m.thread])

C39_NoDoubleDelivery == [][C39_OnceStep]_vars

\* two cycles have delivered messages of the channel, the second one after
\* a cycle-one fetch of the twice-configured channel had failed, and a
\* message of the first record is still in the directory
C39_Witness ==
    /\ Len(history) = 2
    /\ history[1].new_messages # <<>>
    /\ history[2].new_messages # <<>>
    /\ \E m \in Range(history[1].new_messages) :
          m.filename \in inbox[m.thread]
    /\ last.op = "cycle" /\ last.fetch_failed
====
